---------------------------- MODULE Spec2Model ----------------------------
(***************************************************************************)
(* Model of the reflective JSON codec of the hsds-api python client        *)
(* (hsds_api/_hsds_api.py): JsonEncoderOptions, JsonEncoder._try_encode,   *)
(* JsonEncoder._decode, the naming transforms to_camel_case and            *)
(* to_snake_case and the client's option bundle _json_encoder_options.     *)
(*                                                                         *)
(* Python values are tagged records:                                       *)
(*   [k |-> "None"]                      None                              *)
(*   [k |-> "int", i |-> n]              int                               *)
(*   [k |-> "float", f |-> n]            float (n stands for n.0)          *)
(*   [k |-> "bool", b |-> TRUE]          bool                              *)
(*   [k |-> "str", s |-> "abc"]          str                               *)
(*   [k |-> "list", items |-> <<..>>]    list  ("tuple": tuple)            *)
(*   [k |-> "dict", items |-> <<..>>]    dict, <<key, value>> pairs in     *)
(*                                       insertion order, keys distinct    *)
(*   [k |-> "obj", cls |-> c, d |-> ..]  dataclass instance, d its __dict__*)
(*   [k |-> "enum", cls |-> c, name |-> n]  Enum member                    *)
(*   [k |-> "raise", exc |-> e]          the call raised exception e       *)
(* Type objects are records too:                                           *)
(*   [t |-> "Any"]                       typing.Any                        *)
(*   [t |-> "cls", name |-> c]           a class (int, str, a dataclass..) *)
(*   [t |-> "generic", origin |-> o, args |-> <<..>>]                      *)
(*                                       list[X], dict[K, V], Optional[X], *)
(*                                       tuple[X], ClassVar[X]             *)
(***************************************************************************)
EXTENDS Integers, Sequences, FiniteSets

VARIABLES op, options, typeCls, value, data, result, invoked,
          \* the module global _json_encoder_options and the statement of the
          \* module body that runs next
          client_options, module_pc,
          \* the client class whose _invoke runs and the response it received
          client, response,
          \* per thread: where it is in its call of the codec, the call
          \* (with the argument object as it is now) and what the call returned
          thread_pc, thread_call, thread_ret,
          \* the dict objects that are registries, by address; the bundles that
          \* callers have constructed, each with the addresses of its
          \* registries; and the options argument of the running call
          heap, bundles, options_arg

vars == <<op, options, typeCls, value, data, result, invoked,
          client_options, module_pc, client, response,
          thread_pc, thread_call, thread_ret,
          heap, bundles, options_arg>>

\* the variables of the threads
thread_vars == <<thread_pc, thread_call, thread_ret>>

\* the variables of a call of the codec
call_vars == <<op, options, typeCls, value, data, result, invoked, client, response>>

\* the variables of the bundle objects
bundle_vars == <<heap, bundles, options_arg>>

(***************************************************************************)
(* Bounds of the model.                                                    *)
(***************************************************************************)
\* longest list / dict that is enumerated as an input
MaxLen == 2

\* number of threads that call the codec concurrently
MaxThreads == 2

\* longest name that is enumerated as an input of to_camel_case
MaxName == 4

\* number of bundles that callers construct
MaxBundles == 2

(***************************************************************************)
(* Characters and the str methods the naming transforms use.               *)
(***************************************************************************)
\* str.upper() of each lower-case letter
upper_of ==
    [ a |-> "A", b |-> "B", c |-> "C", d |-> "D", e |-> "E", f |-> "F", g |-> "G",
      h |-> "H", i |-> "I", j |-> "J", k |-> "K", l |-> "L", m |-> "M", n |-> "N",
      o |-> "O", p |-> "P", q |-> "Q", r |-> "R", s |-> "S", t |-> "T", u |-> "U",
      v |-> "V", w |-> "W", x |-> "X", y |-> "Y", z |-> "Z" ]

\* str.lower() of each upper-case letter
lower_of ==
    [ A |-> "a", B |-> "b", C |-> "c", D |-> "d", E |-> "e", F |-> "f", G |-> "g",
      H |-> "h", I |-> "i", J |-> "j", K |-> "k", L |-> "l", M |-> "m", N |-> "n",
      O |-> "o", P |-> "p", Q |-> "q", R |-> "r", S |-> "s", T |-> "t", U |-> "u",
      V |-> "v", W |-> "w", X |-> "x", Y |-> "y", Z |-> "z" ]

Char(s, i) == SubSeq(s, i, i)

IsLower(c) == c \in DOMAIN upper_of

IsUpper(c) == c \in DOMAIN lower_of

IsDigit(c) == c \in {"0", "1", "2", "3", "4", "5", "6", "7", "8", "9"}

\* str.upper() of one character
char_upper(c) == IF IsLower(c) THEN upper_of[c] ELSE c

\* str.lower() of one character
char_lower(c) == IF IsUpper(c) THEN lower_of[c] ELSE c

RECURSIVE str_upper(_)
str_upper(s) ==
    IF s = "" THEN "" ELSE char_upper(Char(s, 1)) \o str_upper(Tail(s))

RECURSIVE str_lower(_)
str_lower(s) ==
    IF s = "" THEN "" ELSE char_lower(Char(s, 1)) \o str_lower(Tail(s))

\* str.title(): a cased character is upper-cased when the character before
\* it is not cased (or there is none) and lower-cased otherwise
RECURSIVE title_from(_, _)
\* title_from that leaves a character that follows a letter as it is
title_from_keeping_case(s, previous_is_cased) ==
    IF s = "" THEN ""
    ELSE LET c == Char(s, 1)
         IN  (IF previous_is_cased THEN c ELSE char_upper(c))
                \o title_from(Tail(s), IsLower(c) \/ IsUpper(c))

title_from(s, previous_is_cased) ==
    IF s = "" THEN ""
    ELSE LET c == Char(s, 1)
         IN  (IF previous_is_cased THEN char_lower(c) ELSE char_upper(c))
                \o title_from(Tail(s), IsLower(c) \/ IsUpper(c))

str_title(s) == title_from(s, FALSE)

\* value.split("_")
RECURSIVE str_split(_)
str_split(s) ==
    IF \A i \in 1..Len(s) : Char(s, i) # "_"
    THEN <<s>>
    ELSE LET i == CHOOSE i \in 1..Len(s) :
                     /\ Char(s, i) = "_"
                     /\ \A j \in 1..(i - 1) : Char(s, j) # "_"
         IN  <<SubSeq(s, 1, i - 1)>> \o str_split(SubSeq(s, i + 1, Len(s)))

(***************************************************************************)
(* Naming transforms.                                                      *)
(***************************************************************************)
RECURSIVE join_title(_)
join_title(components) ==
    IF components = <<>> THEN ""
    ELSE str_title(Head(components)) \o join_title(Tail(components))

to_camel_case(s) ==
    LET components == str_split(s)
    IN  Head(components) \o join_title(Tail(components))

\* snake_case_pattern matches the single character at position i:
\* (?<=[a-z0-9])[A-Z]  or  (?!^)[A-Z](?=[a-z])
snake_case_pattern(s, i) ==
    /\ IsUpper(Char(s, i))
    /\ \/ i > 1 /\ (IsLower(Char(s, i - 1)) \/ IsDigit(Char(s, i - 1)))
       \/ i > 1 /\ i < Len(s) /\ IsLower(Char(s, i + 1))

\* snake_case_pattern.sub(r'_\1', value), characters i..Len(value)
RECURSIVE snake_sub(_, _)
snake_sub(s, i) ==
    IF i > Len(s) THEN ""
    ELSE (IF snake_case_pattern(s, i) THEN "_" ELSE "")
            \o Char(s, i) \o snake_sub(s, i + 1)

\* to_snake_case without the final lower()
to_snake_case_no_lower(s) == snake_sub(s, 1)

to_snake_case(s) == str_lower(snake_sub(s, 1))

(***************************************************************************)
(* Option bundles.  A callable is named by a string and applied by the     *)
(* operators property_name_encoder, property_name_decoder, call_encoder    *)
(* and call_decoder below.                                                 *)
(***************************************************************************)
\* JsonEncoderOptions(): the defaults of the frozen dataclass
JsonEncoderOptions ==
    [ property_name_encoder |-> "lambda value: value",
      property_name_decoder |-> "lambda value: value",
      encoders |-> [ datetime  |-> "isoformat",
                     timedelta |-> "_encode_timedelta",
                     Enum      |-> "value.name",
                     UUID      |-> "str(value)" ],
      decoders |-> [ datetime  |-> "fromisoformat",
                     timedelta |-> "_decode_timedelta",
                     Enum      |-> "typeCls[value]",
                     UUID      |-> "UUID(value)" ] ]

\* the bundle of the client when its constructor has returned
_json_encoder_options_constructed ==
    [ JsonEncoderOptions EXCEPT
         !.property_name_encoder = "to_camel_case unless class_",
         !.property_name_decoder = "to_snake_case unless class" ]

\* the bundle of the client, after the two registry assignments
_json_encoder_options ==
    [ property_name_encoder |-> "to_camel_case unless class_",
      property_name_decoder |-> "to_snake_case unless class",
      encoders |-> [ JsonEncoderOptions.encoders EXCEPT
                        !.Enum = "to_camel_case(value.name)" ],
      decoders |-> [ JsonEncoderOptions.decoders EXCEPT
                        !.Enum = "typeCls[to_snake_case(value).upper()]" ] ]

Bundles == {JsonEncoderOptions, _json_encoder_options}

\* a bundle of a caller, JsonEncoderOptions(encoders={...}, decoders={...}):
\* the built-in entries and entries for the enumeration Color, for the
\* dataclass Counter and for object
RegisteredOptions ==
    [ property_name_encoder |-> "lambda value: value",
      property_name_decoder |-> "lambda value: value",
      encoders |-> [ datetime  |-> "isoformat",
                     timedelta |-> "_encode_timedelta",
                     Enum      |-> "value.name",
                     UUID      |-> "str(value)",
                     Color     |-> "value.name.lower()",
                     Counter   |-> "lambda value: None",
                     object    |-> "lambda value: None" ],
      decoders |-> [ datetime  |-> "fromisoformat",
                     timedelta |-> "_decode_timedelta",
                     Enum      |-> "typeCls[value]",
                     UUID      |-> "UUID(value)",
                     Color     |-> "typeCls[value.upper()]",
                     Counter   |-> "lambda typeCls, value: None",
                     object    |-> "lambda typeCls, value: None" ] ]

\* field(default_factory=lambda: {...}) of encoders, called when the dict
\* objects h exist: the dict display makes a new dict, at the next address
\* a factory that returns the one dict at address 1 on every call
default_factory_encoders_shared(h) == [address |-> 1, heap |-> h]

default_factory_encoders(h) ==
    [address |-> Len(h) + 1, heap |-> Append(h, JsonEncoderOptions.encoders)]

\* field(default_factory=lambda: {...}) of decoders
default_factory_decoders(h) ==
    [address |-> Len(h) + 1, heap |-> Append(h, JsonEncoderOptions.decoders)]

\* JsonEncoderOptions(): the generated __init__ calls the two factories; the
\* bundle holds the addresses of its registries
JsonEncoderOptions__init__(h) ==
    LET e == default_factory_encoders(h)
        d == default_factory_decoders(e.heap)
    IN  [bundle |-> [encoders |-> e.address, decoders |-> d.address], heap |-> d.heap]

\* the addresses of the registries of _json_encoder_options, the first
\* bundle that is constructed
_json_encoder_options_registries == [encoders |-> 1, decoders |-> 2]

\* a bundle with the default naming pair, as the codec reads it: the
\* registries are the dicts at its addresses
bundle_at(b, h) ==
    [ JsonEncoderOptions EXCEPT !.encoders = h[b.encoders], !.decoders = h[b.decoders] ]

\* the options argument of a call: no call is running, the call passes no
\* options, or it passes the i-th bundle that callers have constructed
NotCalled == [k |-> "no call"]
NoOptions == [k |-> "None"]
Bundle(i) == [k |-> "bundle", i |-> i]

\* registry[key] = callable
set_entry(registry, key, callable) ==
    [k \in DOMAIN registry \cup {key} |-> IF k = key THEN callable ELSE registry[k]]

\* property_name_encoder that is the transform of the client for every bundle
property_name_encoder_camel(opts, key) ==
    IF key # "class_" THEN to_camel_case(key) ELSE "class"

property_name_encoder(opts, key) ==
    IF opts.property_name_encoder = "lambda value: value"
    THEN key
    ELSE IF key # "class_" THEN to_camel_case(key) ELSE "class"

\* property_name_decoder without the override of "class"
property_name_decoder_no_override(opts, key) ==
    IF opts.property_name_decoder = "lambda value: value"
    THEN key
    ELSE to_snake_case(key)

property_name_decoder(opts, key) ==
    IF opts.property_name_decoder = "lambda value: value"
    THEN key
    ELSE IF key # "class" THEN to_snake_case(key) ELSE "class_"

(***************************************************************************)
(* Values and type objects.                                                *)
(***************************************************************************)
None == [k |-> "None"]

PyInt(n) == [k |-> "int", i |-> n]

PyFloat(n) == [k |-> "float", f |-> n]

PyBool(b) == [k |-> "bool", b |-> b]

PyStr(s) == [k |-> "str", s |-> s]

PyList(items) == [k |-> "list", items |-> items]

PyTuple(items) == [k |-> "tuple", items |-> items]

PyDict(items) == [k |-> "dict", items |-> items]

Obj(cls, d) == [k |-> "obj", cls |-> cls, d |-> d]

EnumMember(cls, name) == [k |-> "enum", cls |-> cls, name |-> name]

Raise(exc) == [k |-> "raise", exc |-> exc]

IsRaise(v) == v.k = "raise"

Any == [t |-> "Any"]

Cls(name) == [t |-> "cls", name |-> name]

Generic(origin, args) == [t |-> "generic", origin |-> origin, args |-> args]

\* typing.Optional[X] is Union[X, None]
Optional(X) == Generic("Union", <<X, Cls("NoneType")>>)

ListOf(X) == Generic("list", <<X>>)

DictOf(K, V) == Generic("dict", <<K, V>>)

TupleOf(X) == Generic("tuple", <<X>>)

ClassVarOf(X) == Generic("ClassVar", <<X>>)

(***************************************************************************)
(* The classes of the model: two record types of the client, and record    *)
(* and enumeration types that give the codec the other field shapes it     *)
(* handles (int, Optional, bool, Enum, ClassVar, dict, nested record,      *)
(* timedelta, datetime, UUID).                                             *)
(***************************************************************************)
Dataclasses ==
    { "GetDatasetResponseTypeTypeFieldsType", "GetDatasetResponseTypeType",
      "Counter", "Reading", "Catalog", "Batch", "Pixel", "Job", "Lease", "Roster" }

Enums == {"Color", "LinkClass"}

\* Enum._member_map_ of an enumeration class
_member_map_(cls) ==
    CASE cls = "Color" -> {"RED", "DARK_BLUE"}
      [] cls = "LinkClass" -> {"H5L_TYPE_HARD", "H5L_TYPE_SOFT"}

\* typing.get_type_hints(typeCls): <<name, type>> in declaration order
type_hints(cls) ==
    CASE cls = "GetDatasetResponseTypeTypeFieldsType" ->
            << <<"name", Cls("str")>>, <<"type", Cls("str")>> >>
      [] cls = "GetDatasetResponseTypeType" ->
            << <<"class_", Cls("str")>>,
               <<"base", Cls("str")>>,
               <<"fields", ListOf(Cls("GetDatasetResponseTypeTypeFieldsType"))>> >>
      [] cls = "Counter" ->
            << <<"count", Cls("int")>>, <<"label", Optional(Cls("str"))>> >>
      [] cls = "Reading" ->
            << <<"ratio", Cls("float")>>,
               <<"flag", Cls("bool")>>,
               <<"instances", ClassVarOf(Cls("int"))>> >>
      [] cls = "Catalog" ->
            << <<"last_modified", Cls("float")>>,
               <<"table", DictOf(Cls("str"), Optional(Cls("Counter")))>> >>
      [] cls = "Batch" ->
            << <<"owner", Cls("Counter")>>,
               <<"items", ListOf(Optional(Cls("Counter")))>> >>
      [] cls = "Pixel" ->
            << <<"color", Cls("Color")>>, <<"shade", Optional(Cls("Color"))>> >>
      [] cls = "Job" ->
            << <<"duration", Cls("timedelta")>>,
               <<"started", Cls("datetime")>>,
               <<"id", Cls("UUID")>> >>
      [] cls = "Lease" ->
            << <<"period", Optional(Cls("timedelta"))>> >>
      [] cls = "Roster" ->
            << <<"leases", ListOf(Cls("Lease"))>> >>

\* dataclasses.is_dataclass(x) for a class or an instance
is_dataclass(x) ==
    \/ "t" \in DOMAIN x /\ x.t = "cls" /\ x.name \in Dataclasses
    \/ "k" \in DOMAIN x /\ x.k = "obj"

\* typing.get_origin(tp)
get_origin(tp) == IF tp.t = "generic" THEN tp.origin ELSE "None"

\* typing.get_args(tp)
get_args(tp) == IF tp.t = "generic" THEN tp.args ELSE <<>>

\* cls.__mro__[:-1]: the ancestry of a class without object
__mro__(cls) ==
    CASE cls \in Enums -> <<cls, "Enum">>
      [] cls = "bool" -> <<"bool", "int">>
      [] cls = "datetime" -> <<"datetime", "date">>
      [] cls = "object" -> <<>>
      [] OTHER -> <<cls>>

\* value.__class__
__class__(v) ==
    CASE v.k = "obj" -> v.cls
      [] v.k = "enum" -> v.cls
      [] OTHER -> v.k

(***************************************************************************)
(* dict operations: d[key] = v, key in d.                                  *)
(***************************************************************************)
HasKey(items, key) == \E i \in 1..Len(items) : items[i][1] = key

SetItem(items, key, v) ==
    IF HasKey(items, key)
    THEN [i \in 1..Len(items) |->
            IF items[i][1] = key THEN <<key, v>> ELSE items[i]]
    ELSE Append(items, <<key, v>>)

GetItem(items, key) ==
    items[CHOOSE i \in 1..Len(items) : items[i][1] = key][2]

(***************************************************************************)
(* int(s), str(n) and the format specs the scalar codecs use.              *)
(***************************************************************************)
Digits == "0123456789"

\* int(c) of one decimal digit
digit_value == [c \in {Char(Digits, n) : n \in 1..10} |->
                   CHOOSE n \in 0..9 : Char(Digits, n + 1) = c]

\* the string is one or more decimal digits: [0-9]+
IsDigits(s) == s # "" /\ \A i \in 1..Len(s) : IsDigit(Char(s, i))

\* int(s) of a string of decimal digits
RECURSIVE int_of(_)
int_of(s) ==
    IF s = "" THEN 0
    ELSE int_of(SubSeq(s, 1, Len(s) - 1)) * 10 + digit_value[Char(s, Len(s))]

\* str(n) of an int
RECURSIVE str_of(_)
str_of(n) ==
    IF n < 0 THEN "-" \o str_of(0 - n)
    ELSE IF n < 10 THEN Char(Digits, n + 1)
    ELSE str_of(n \div 10) \o Char(Digits, (n % 10) + 1)

\* s.rjust(width, "0")
RECURSIVE zfill(_, _)
zfill(s, width) == IF Len(s) >= width THEN s ELSE zfill("0" \o s, width)

\* f"{n:0<width>}" of an int n >= 0
format(n, width) == zfill(str_of(n), width)

\* s.find(c) + 1: the position of the first c in s, 0 when there is none
find(s, c) ==
    IF \E i \in 1..Len(s) : Char(s, i) = c
    THEN CHOOSE i \in 1..Len(s) :
            Char(s, i) = c /\ \A j \in 1..(i - 1) : Char(s, j) # c
    ELSE 0

\* s.replace(old, new), old not empty
RECURSIVE replace(_, _, _)
replace(s, old, new) ==
    IF Len(s) < Len(old) THEN s
    ELSE IF SubSeq(s, 1, Len(old)) = old
    THEN new \o replace(SubSeq(s, Len(old) + 1, Len(s)), old, new)
    ELSE Char(s, 1) \o replace(Tail(s), old, new)

\* s[start:stop], positions counted from 0 and clamped to the string
slice(s, start, stop) ==
    SubSeq(s, start + 1, IF stop > Len(s) THEN Len(s) ELSE stop)

\* s.endswith(suffix)
endswith(s, suffix) ==
    Len(s) >= Len(suffix) /\ SubSeq(s, Len(s) - Len(suffix) + 1, Len(s)) = suffix

\* old in s
contains(s, old) ==
    \E i \in 1..(Len(s) - Len(old) + 1) : SubSeq(s, i, i + Len(old) - 1) = old

(***************************************************************************)
(* datetime.timedelta and its codec.  A timedelta is                       *)
(*   [k |-> "timedelta", days |-> d, seconds |-> s, microseconds |-> u]    *)
(* with 0 <= s < 86400 and 0 <= u < 1000000, as the class normalises it.   *)
(***************************************************************************)
\* ticks / 10.0 cut to an integer instead of rounded
round_down(ticks) == ticks \div 10

\* round(ticks / 10.0), as timedelta rounds a float count of microseconds:
\* to the nearest integer, a tie to the even one
round_half_even(ticks) ==
    LET q == ticks \div 10
        r == ticks % 10
    IN  IF r < 5 THEN q
        ELSE IF r > 5 THEN q + 1
        ELSE IF q % 2 = 0 THEN q ELSE q + 1

\* timedelta(days=, hours=, minutes=, seconds=, microseconds=ticks / 10.0)
timedelta(days, hours, minutes, seconds, ticks) ==
    LET us == round_half_even(ticks)
        s  == hours * 3600 + minutes * 60 + seconds + us \div 1000000
    IN  [k |-> "timedelta",
         days |-> days + s \div 86400,
         seconds |-> s % 86400,
         microseconds |-> us % 1000000]

\* _encode_timedelta without the trailing tick digit
_encode_timedelta_microseconds(v) ==
    LET hours     == v.seconds \div 3600
        remainder == v.seconds % 3600
        minutes   == remainder \div 60
        seconds   == remainder % 60
    IN  str_of(v.days) \o "." \o format(hours, 2) \o ":" \o format(minutes, 2)
            \o ":" \o format(seconds, 2) \o "." \o format(v.microseconds, 6)

\* _encode_timedelta that writes the day count only when it is not zero
_encode_timedelta_days_if_nonzero(v) ==
    LET hours     == v.seconds \div 3600
        remainder == v.seconds % 3600
        minutes   == remainder \div 60
        seconds   == remainder % 60
    IN  (IF v.days # 0 THEN str_of(v.days) \o "." ELSE "")
            \o format(hours, 2) \o ":" \o format(minutes, 2)
            \o ":" \o format(seconds, 2) \o "." \o format(v.microseconds, 6) \o "0"

_encode_timedelta(v) ==
    LET hours     == v.seconds \div 3600
        remainder == v.seconds % 3600
        minutes   == remainder \div 60
        seconds   == remainder % 60
    IN  str_of(v.days) \o "." \o format(hours, 2) \o ":" \o format(minutes, 2)
            \o ":" \o format(seconds, 2) \o "." \o format(v.microseconds, 6) \o "0"

\* timedelta_pattern.match(value): the groups of
\* ^(?:([0-9]+)\.)?([0-9]{2}):([0-9]{2}):([0-9]{2})(?:\.([0-9]+))?$
\* as <<g1, g2, g3, g4, g5>>, "" for a group that took no part, or <<>> when
\* the string does not match
timedelta_pattern(s) ==
    LET dot   == find(s, ".")
        colon == find(s, ":")
        \* a "." before the first ":" ends the day count
        days  == IF dot # 0 /\ dot < colon THEN SubSeq(s, 1, dot - 1) ELSE ""
        rest  == IF dot # 0 /\ dot < colon THEN SubSeq(s, dot + 1, Len(s)) ELSE s
        frac  == SubSeq(rest, 10, Len(rest))
    IN  IF /\ (dot # 0 /\ dot < colon) => IsDigits(days)
           /\ Len(rest) >= 8
           /\ IsDigits(SubSeq(rest, 1, 2)) /\ Char(rest, 3) = ":"
           /\ IsDigits(SubSeq(rest, 4, 5)) /\ Char(rest, 6) = ":"
           /\ IsDigits(SubSeq(rest, 7, 8))
           /\ Len(rest) > 8 => (Char(rest, 9) = "." /\ IsDigits(frac))
        THEN <<days, SubSeq(rest, 1, 2), SubSeq(rest, 4, 5), SubSeq(rest, 7, 8), frac>>
        ELSE <<>>

\* the error _decode_timedelta raises
TimedeltaError ==
    [k |-> "raise", exc |-> "Exception",
     msg |-> "Unable to decode value into value of type timedelta."]

\* _decode_timedelta that reads a string without a match as a zero duration
_decode_timedelta_or_zero(d) ==
    IF d.k # "str" THEN Raise("TypeError")
    ELSE LET match == timedelta_pattern(d.s)
         IN  IF match # <<>>
             THEN timedelta(IF match[1] # "" THEN int_of(match[1]) ELSE 0,
                            int_of(match[2]), int_of(match[3]), int_of(match[4]),
                            IF match[5] # "" THEN int_of(match[5]) ELSE 0)
             ELSE timedelta(0, 0, 0, 0, 0)

_decode_timedelta(d) ==
    IF d.k # "str" THEN Raise("TypeError")
    ELSE LET match == timedelta_pattern(d.s)
         IN  IF match # <<>>
             THEN timedelta(IF match[1] # "" THEN int_of(match[1]) ELSE 0,
                            int_of(match[2]), int_of(match[3]), int_of(match[4]),
                            IF match[5] # "" THEN int_of(match[5]) ELSE 0)
             ELSE TimedeltaError

(***************************************************************************)
(* datetime.datetime and its codec.  A datetime is                         *)
(*   [k |-> "datetime", date |-> <<year, month, day>>,                     *)
(*    time |-> <<hour, minute, second, microsecond>>, tzinfo |-> tz]       *)
(* where tz is <<>> for a naive datetime and <<offset>>, the UTC offset in *)
(* seconds, for an aware one.                                              *)
(***************************************************************************)
datetime(year, month, day, hour, minute, second, microsecond, tzinfo) ==
    [k |-> "datetime", date |-> <<year, month, day>>,
     time |-> <<hour, minute, second, microsecond>>, tzinfo |-> tzinfo]

\* calendar: the days of a month
days_in_month(year, month) ==
    IF month = 2
    THEN IF year % 4 = 0 /\ (year % 100 # 0 \/ year % 400 = 0) THEN 29 ELSE 28
    ELSE IF month \in {4, 6, 9, 11} THEN 30 ELSE 31

\* the "+HH:MM[:SS]" that isoformat() writes for a UTC offset
format_utcoffset(offset) ==
    LET sign == IF offset < 0 THEN "-" ELSE "+"
        abs  == IF offset < 0 THEN 0 - offset ELSE offset
        hh   == abs \div 3600
        mm   == (abs % 3600) \div 60
        ss   == abs % 60
    IN  sign \o format(hh, 2) \o ":" \o format(mm, 2)
            \o (IF ss # 0 THEN ":" \o format(ss, 2) ELSE "")

\* datetime.isoformat()
isoformat(v) ==
    format(v.date[1], 4) \o "-" \o format(v.date[2], 2) \o "-" \o format(v.date[3], 2)
        \o "T" \o format(v.time[1], 2) \o ":" \o format(v.time[2], 2)
        \o ":" \o format(v.time[3], 2)
        \o (IF v.time[4] # 0 THEN "." \o format(v.time[4], 6) ELSE "")
        \o (IF v.tzinfo # <<>> THEN format_utcoffset(v.tzinfo[1]) ELSE "")

\* the time part of an ISO string, "HH[:MM[:SS[.fff[fff]]]]", as
\* <<hour, minute, second, microsecond>>, or <<>> when it is malformed
parse_hh_mm_ss_ff(t) ==
    LET n    == Len(t)
        two(i) == IsDigits(SubSeq(t, i, i + 1))
        frac == SubSeq(t, 10, n)
    IN  IF /\ n \in {2, 5, 8, 12, 15}
           /\ two(1)
           /\ n >= 5 => (Char(t, 3) = ":" /\ two(4))
           /\ n >= 8 => (Char(t, 6) = ":" /\ two(7))
           /\ n >= 12 => (Char(t, 9) = "." /\ IsDigits(frac))
        THEN << int_of(SubSeq(t, 1, 2)),
                IF n >= 5 THEN int_of(SubSeq(t, 4, 5)) ELSE 0,
                IF n >= 8 THEN int_of(SubSeq(t, 7, 8)) ELSE 0,
                IF n = 12 THEN int_of(frac) * 1000
                ELSE IF n = 15 THEN int_of(frac) ELSE 0 >>
        ELSE <<>>

\* the position of the sign that starts the UTC offset, 0 when there is none
tzinfo_pos(t) ==
    IF \E i \in 1..Len(t) : Char(t, i) \in {"+", "-"}
    THEN CHOOSE i \in 1..Len(t) :
            /\ Char(t, i) \in {"+", "-"}
            /\ \A j \in 1..(i - 1) : Char(t, j) \notin {"+", "-"}
    ELSE 0

\* datetime.fromisoformat(s) for the strings that isoformat() writes, with
\* offsets of whole seconds; any other string is a ValueError
fromisoformat(s) ==
    IF ~ /\ Len(s) >= 10
         /\ IsDigits(SubSeq(s, 1, 4)) /\ Char(s, 5) = "-"
         /\ IsDigits(SubSeq(s, 6, 7)) /\ Char(s, 8) = "-"
         /\ IsDigits(SubSeq(s, 9, 10))
         /\ Len(s) # 11
    THEN Raise("ValueError")
    ELSE LET year  == int_of(SubSeq(s, 1, 4))
             month == int_of(SubSeq(s, 6, 7))
             day   == int_of(SubSeq(s, 9, 10))
             t     == SubSeq(s, 12, Len(s))
             pos   == tzinfo_pos(t)
             clock == parse_hh_mm_ss_ff(IF pos = 0 THEN t ELSE SubSeq(t, 1, pos - 1))
             tz    == parse_hh_mm_ss_ff(SubSeq(t, pos + 1, Len(t)))
             offset == tz[1] * 3600 + tz[2] * 60 + tz[3]
         IN  IF ~ (year >= 1 /\ month \in 1..12 /\ day \in 1..days_in_month(year, month))
             THEN Raise("ValueError")
             ELSE IF Len(s) = 10
             THEN datetime(year, month, day, 0, 0, 0, 0, <<>>)
             ELSE IF clock = <<>> \/ clock[1] > 23 \/ clock[2] > 59 \/ clock[3] > 59
             THEN Raise("ValueError")
             ELSE IF pos = 0
             THEN datetime(year, month, day, clock[1], clock[2], clock[3], clock[4], <<>>)
             ELSE IF tz = <<>> \/ Len(t) - pos \notin {5, 8} \/ offset >= 86400
             THEN Raise("ValueError")
             ELSE datetime(year, month, day, clock[1], clock[2], clock[3], clock[4],
                           <<IF Char(t, pos) = "-" THEN 0 - offset ELSE offset>>)

\* encoders[datetime] without the replace
encode_datetime_isoformat(v) == isoformat(v)

\* encoders[datetime]: value.isoformat().replace("+00:00", "Z")
encode_datetime(v) == replace(isoformat(v), "+00:00", "Z")

\* decoders[datetime]:
\* datetime.fromisoformat((value[0:26] + value[26 + 1:]).replace("Z", "+00:00"))
decode_datetime(d) ==
    IF d.k = "list" THEN Raise("AttributeError")
    ELSE IF d.k # "str" THEN Raise("TypeError")
    ELSE fromisoformat(replace(slice(d.s, 0, 26) \o slice(d.s, 27, Len(d.s)),
                               "Z", "+00:00"))

(***************************************************************************)
(* uuid.UUID and its codec.  A UUID is [k |-> "UUID", hex |-> h], h its 32 *)
(* lower-case hexadecimal digits.                                          *)
(***************************************************************************)
IsHex(c) == IsDigit(c) \/ c \in {"a", "b", "c", "d", "e", "f", "A", "B", "C", "D", "E", "F"}

\* s.strip("{}")
RECURSIVE strip_braces(_)
strip_braces(s) ==
    IF s # "" /\ Char(s, 1) \in {"{", "}"} THEN strip_braces(Tail(s))
    ELSE IF s # "" /\ Char(s, Len(s)) \in {"{", "}"}
    THEN strip_braces(SubSeq(s, 1, Len(s) - 1))
    ELSE s

\* UUID(hex): the digits of the string without "urn:", "uuid:", braces and
\* hyphens; a ValueError unless these are 32 hexadecimal digits
UUID(d) ==
    IF d.k # "str" THEN Raise("AttributeError")
    ELSE LET hex == replace(strip_braces(replace(replace(d.s, "urn:", ""), "uuid:", "")),
                            "-", "")
         IN  IF Len(hex) # 32 \/ \E i \in 1..Len(hex) : ~IsHex(Char(hex, i))
             THEN Raise("ValueError")
             ELSE [k |-> "UUID", hex |-> str_lower(hex)]

\* str(value) of a UUID: 8-4-4-4-12
uuid_str(v) ==
    SubSeq(v.hex, 1, 8) \o "-" \o SubSeq(v.hex, 9, 12) \o "-" \o SubSeq(v.hex, 13, 16)
        \o "-" \o SubSeq(v.hex, 17, 20) \o "-" \o SubSeq(v.hex, 21, 32)

(***************************************************************************)
(* JsonEncoder._try_encode                                                 *)
(***************************************************************************)
\* options.encoders.get(base) for the first base of the ancestry that has an
\* entry; "None" when no base has one
RECURSIVE find_encoder(_, _)
\* find_encoder that walks the ancestry from the least derived class
find_encoder_base_first(bases, opts) ==
    IF bases = <<>> THEN "None"
    ELSE IF find_encoder(Tail(bases), opts) # "None"
         THEN find_encoder(Tail(bases), opts)
         ELSE IF Head(bases) \in DOMAIN opts.encoders
              THEN opts.encoders[Head(bases)]
              ELSE "None"

find_encoder(bases, opts) ==
    IF bases = <<>> THEN "None"
    ELSE IF Head(bases) \in DOMAIN opts.encoders
         THEN opts.encoders[Head(bases)]
         ELSE find_encoder(Tail(bases), opts)

\* encoder(value) for the registered callables
call_encoder(encoder, v) ==
    CASE encoder = "value.name" -> PyStr(v.name)
      [] encoder = "to_camel_case(value.name)" -> PyStr(to_camel_case(v.name))
      [] encoder = "isoformat" -> PyStr(encode_datetime(v))
      [] encoder = "_encode_timedelta" -> PyStr(_encode_timedelta(v))
      [] encoder = "str(value)" -> PyStr(uuid_str(v))
      [] encoder = "value.name.lower()" -> PyStr(str_lower(v.name))
      [] encoder = "lambda value: None" -> None

RECURSIVE _try_encode(_, _)

\* {key: _try_encode(current_value) for key, current_value in items}, with
\* the keys of a dataclass passed through options.property_name_encoder
RECURSIVE encode_items(_, _, _, _)
\* encode_items that leaves out the entries whose value is None
encode_items_skip_none(items, opts, is_record, acc) ==
    IF items = <<>> THEN acc
    ELSE LET key == IF is_record
                    THEN property_name_encoder(opts, Head(items)[1])
                    ELSE Head(items)[1]
         IN  encode_items(Tail(items), opts, is_record,
                          IF Head(items)[2] = None THEN acc
                          ELSE SetItem(acc, key, _try_encode(Head(items)[2], opts)))

encode_items(items, opts, is_record, acc) ==
    IF items = <<>> THEN acc
    ELSE LET key == IF is_record
                    THEN property_name_encoder(opts, Head(items)[1])
                    ELSE Head(items)[1]
         IN  encode_items(Tail(items), opts, is_record,
                          SetItem(acc, key, _try_encode(Head(items)[2], opts)))

\* _try_encode that looks for a registered encoder before it looks at the
\* shape of the value
_try_encode_codec_first(v, opts) ==
    IF v = None THEN None
    ELSE LET encoder == find_encoder(__mro__(__class__(v)), opts)
         IN  IF encoder # "None" THEN call_encoder(encoder, v)
             ELSE IF v.k = "list" \/ v.k = "tuple"
             THEN PyList([i \in 1..Len(v.items) |-> _try_encode(v.items[i], opts)])
             ELSE IF v.k = "dict"
             THEN PyDict(encode_items(v.items, opts, FALSE, <<>>))
             ELSE IF is_dataclass(v)
             THEN PyDict(encode_items(v.d, opts, TRUE, <<>>))
             ELSE v

_try_encode(v, opts) ==
    IF v = None THEN None
    ELSE IF v.k = "list" \/ v.k = "tuple"
    THEN PyList([i \in 1..Len(v.items) |-> _try_encode(v.items[i], opts)])
    ELSE IF v.k = "dict"
    THEN PyDict(encode_items(v.items, opts, FALSE, <<>>))
    ELSE IF is_dataclass(v)
    THEN PyDict(encode_items(v.d, opts, TRUE, <<>>))
    ELSE LET encoder == find_encoder(__mro__(__class__(v)), opts)
         IN  IF encoder # "None" THEN call_encoder(encoder, v) ELSE v

\* JsonEncoder.encode(value, options)
encode(v, opts) == _try_encode(v, opts)

(***************************************************************************)
(* JsonEncoder._decode.  A call yields [ret, invoked]: the value returned  *)
(* (or the exception raised) and the registered decoders that were called, *)
(* in call order.                                                          *)
(***************************************************************************)
Returns(v) == [ret |-> v, invoked |-> <<>>]

\* options.decoders.get(base) for the first base of the ancestry that has an
\* entry; "None" when no base has one
RECURSIVE find_decoder(_, _)
find_decoder(bases, opts) ==
    IF bases = <<>> THEN "None"
    ELSE IF Head(bases) \in DOMAIN opts.decoders
         THEN opts.decoders[Head(bases)]
         ELSE find_decoder(Tail(bases), opts)

\* EnumMeta.__getitem__: cls._member_map_[name]
\* a lookup that yields None for an unknown name, as dict.get does
enum_getitem_or_none(cls, name) ==
    IF name.k \in {"list", "dict"} THEN Raise("TypeError")
    ELSE IF name.k = "str" /\ name.s \in _member_map_(cls)
         THEN EnumMember(cls, name.s)
         ELSE None

enum_getitem(cls, name) ==
    IF name.k \in {"list", "dict"} THEN Raise("TypeError")
    ELSE IF name.k = "str" /\ name.s \in _member_map_(cls)
         THEN EnumMember(cls, name.s)
         ELSE Raise("KeyError")

\* decoder(typeCls, data) for the registered callables
call_decoder(decoder, tp, d) ==
    CASE decoder = "typeCls[value]" -> enum_getitem(tp.name, d)
      [] decoder = "typeCls[to_snake_case(value).upper()]" ->
            IF d.k # "str" THEN Raise("TypeError")
            ELSE enum_getitem(tp.name, PyStr(str_upper(to_snake_case(d.s))))
      [] decoder = "fromisoformat" -> decode_datetime(d)
      [] decoder = "_decode_timedelta" -> _decode_timedelta(d)
      [] decoder = "UUID(value)" -> UUID(d)
      [] decoder = "typeCls[value.upper()]" ->
            IF d.k # "str" THEN Raise("AttributeError")
            ELSE enum_getitem(tp.name, PyStr(str_upper(d.s)))
      [] decoder = "lambda typeCls, value: None" -> None

\* the elements "for value in data" visits; data is iterable
iterate(d) ==
    CASE d.k = "list" -> d.items
      [] d.k = "str" -> [i \in 1..Len(d.s) |-> PyStr(Char(d.s, i))]
      [] d.k = "dict" -> [i \in 1..Len(d.items) |-> PyStr(d.items[i][1])]

\* the default of a field that the wire map did not supply
\* default_value without the float case
default_value_int_only(tp) ==
    IF tp = Cls("int") THEN PyInt(0) ELSE None

default_value(tp) ==
    IF tp = Cls("int") THEN PyInt(0)
    ELSE IF tp = Cls("float") THEN PyFloat(0)
    ELSE None

\* "ensure default values if JSON does not serialize default fields"
RECURSIVE ensure_defaults(_, _)
\* ensure_defaults that also replaces a staged None
ensure_defaults_for_none(hints, parameters) ==
    IF hints = <<>> THEN parameters
    ELSE LET key == Head(hints)[1]
             tp  == Head(hints)[2]
         IN  ensure_defaults(Tail(hints),
                IF /\ ~HasKey(parameters, key) \/ GetItem(parameters, key) = None
                   /\ get_origin(tp) # "ClassVar"
                THEN SetItem(parameters, key, default_value(tp))
                ELSE parameters)

ensure_defaults(hints, parameters) ==
    IF hints = <<>> THEN parameters
    ELSE LET key == Head(hints)[1]
             tp  == Head(hints)[2]
         IN  ensure_defaults(Tail(hints),
                IF ~HasKey(parameters, key) /\ get_origin(tp) # "ClassVar"
                THEN SetItem(parameters, key, default_value(tp))
                ELSE parameters)

\* dataclasses.fields(cls): the annotations that are not ClassVar
fields(cls) ==
    SelectSeq(type_hints(cls), LAMBDA h : get_origin(h[2]) # "ClassVar")

\* typeCls(**parameters): the generated __init__ of the dataclass
construct(cls, parameters) ==
    LET fs == fields(cls)
    IN  IF \E i \in 1..Len(parameters) : ~HasKey(fs, parameters[i][1])
        THEN Raise("TypeError")
        ELSE IF \E i \in 1..Len(fs) : ~HasKey(parameters, fs[i][1])
        THEN Raise("TypeError")
        ELSE Obj(cls, [i \in 1..Len(fs) |->
                         <<fs[i][1], GetItem(parameters, fs[i][1])>>])

RECURSIVE _decode(_, _, _)

\* for value in data: instance1.append(_decode(listType, value, options))
RECURSIVE decode_list(_, _, _, _, _)
\* decode_list that inserts each element at the front
decode_list_reversed(listType, values, opts, instance1, inv) ==
    IF values = <<>> THEN [ret |-> PyList(instance1), invoked |-> inv]
    ELSE LET r == _decode(listType, Head(values), opts)
         IN  IF IsRaise(r.ret)
             THEN [ret |-> r.ret, invoked |-> inv \o r.invoked]
             ELSE decode_list(listType, Tail(values), opts,
                              <<r.ret>> \o instance1, inv \o r.invoked)

decode_list(listType, values, opts, instance1, inv) ==
    IF values = <<>> THEN [ret |-> PyList(instance1), invoked |-> inv]
    ELSE LET r == _decode(listType, Head(values), opts)
         IN  IF IsRaise(r.ret)
             THEN [ret |-> r.ret, invoked |-> inv \o r.invoked]
             ELSE decode_list(listType, Tail(values), opts,
                              Append(instance1, r.ret), inv \o r.invoked)

\* for key, value in data.items(): instance2[key] = _decode(valueType, value, options)
RECURSIVE decode_dict(_, _, _, _, _)
\* decode_dict that passes the keys through property_name_decoder
decode_dict_renamed(valueType, items, opts, instance2, inv) ==
    IF items = <<>> THEN [ret |-> PyDict(instance2), invoked |-> inv]
    ELSE LET r == _decode(valueType, Head(items)[2], opts)
         IN  IF IsRaise(r.ret)
             THEN [ret |-> r.ret, invoked |-> inv \o r.invoked]
             ELSE decode_dict(valueType, Tail(items), opts,
                              SetItem(instance2,
                                      property_name_decoder(opts, Head(items)[1]),
                                      r.ret),
                              inv \o r.invoked)

decode_dict(valueType, items, opts, instance2, inv) ==
    IF items = <<>> THEN [ret |-> PyDict(instance2), invoked |-> inv]
    ELSE LET r == _decode(valueType, Head(items)[2], opts)
         IN  IF IsRaise(r.ret)
             THEN [ret |-> r.ret, invoked |-> inv \o r.invoked]
             ELSE decode_dict(valueType, Tail(items), opts,
                              SetItem(instance2, Head(items)[1], r.ret),
                              inv \o r.invoked)

\* for key, value in data.items(): decode the entries that have a type hint
RECURSIVE decode_parameters(_, _, _, _, _)
\* decode_parameters that stages the entries without a type hint as they are
decode_parameters_all(hints, items, opts, parameters, inv) ==
    IF items = <<>> THEN [ret |-> PyDict(parameters), invoked |-> inv]
    ELSE LET key == property_name_decoder(opts, Head(items)[1])
         IN  IF HasKey(hints, key)
             THEN LET r == _decode(GetItem(hints, key), Head(items)[2], opts)
                  IN  IF IsRaise(r.ret)
                      THEN [ret |-> r.ret, invoked |-> inv \o r.invoked]
                      ELSE decode_parameters(hints, Tail(items), opts,
                                             SetItem(parameters, key, r.ret),
                                             inv \o r.invoked)
             ELSE decode_parameters(hints, Tail(items), opts,
                                    SetItem(parameters, key, Head(items)[2]), inv)

decode_parameters(hints, items, opts, parameters, inv) ==
    IF items = <<>> THEN [ret |-> PyDict(parameters), invoked |-> inv]
    ELSE LET key == property_name_decoder(opts, Head(items)[1])
         IN  IF HasKey(hints, key)
             THEN LET r == _decode(GetItem(hints, key), Head(items)[2], opts)
                  IN  IF IsRaise(r.ret)
                      THEN [ret |-> r.ret, invoked |-> inv \o r.invoked]
                      ELSE decode_parameters(hints, Tail(items), opts,
                                             SetItem(parameters, key, r.ret),
                                             inv \o r.invoked)
             ELSE decode_parameters(hints, Tail(items), opts, parameters, inv)

\* decode_typed that returns the data for a generic type it does not know
decode_typed_lenient(tp, d, opts) ==
    IF tp = Any THEN Returns(d)
    ELSE IF get_origin(tp) # "None"
    THEN LET origin == get_origin(tp)
             args   == get_args(tp)
         IN  \* Optional
             IF origin = "Union" /\ \E i \in 1..Len(args) : args[i] = Cls("NoneType")
             THEN _decode(args[1], d, opts)
             \* issubclass(origin, list) of something that is not a class
             ELSE IF origin \in {"Union", "ClassVar"}
             THEN Returns(Raise("TypeError"))
             \* list
             ELSE IF origin = "list"
             THEN IF d.k \in {"list", "str", "dict"}
                  THEN decode_list(args[1], iterate(d), opts, <<>>, <<>>)
                  ELSE Returns(Raise("TypeError"))
             \* dict
             ELSE IF origin = "dict"
             THEN IF d.k = "dict"
                  THEN decode_dict(args[2], d.items, opts, <<>>, <<>>)
                  ELSE Returns(Raise("AttributeError"))
             \* default
             ELSE Returns(d)
    \* dataclass
    ELSE IF is_dataclass(tp)
    THEN IF d.k # "dict" THEN Returns(Raise("AttributeError"))
         ELSE LET staged == decode_parameters(type_hints(tp.name), d.items,
                                              opts, <<>>, <<>>)
              IN  IF IsRaise(staged.ret) THEN staged
                  ELSE [ret |-> construct(tp.name,
                                    ensure_defaults(type_hints(tp.name),
                                                    staged.ret.items)),
                        invoked |-> staged.invoked]
    \* registered decoders
    ELSE LET decoder == find_decoder(__mro__(tp.name), opts)
         IN  IF decoder # "None"
             THEN [ret |-> call_decoder(decoder, tp, d), invoked |-> <<decoder>>]
             \* default
             ELSE Returns(d)

\* _decode from "if typeCls == Any" on
decode_typed(tp, d, opts) ==
    IF tp = Any THEN Returns(d)
    ELSE IF get_origin(tp) # "None"
    THEN LET origin == get_origin(tp)
             args   == get_args(tp)
         IN  \* Optional
             IF origin = "Union" /\ \E i \in 1..Len(args) : args[i] = Cls("NoneType")
             THEN _decode(args[1], d, opts)
             \* issubclass(origin, list) of something that is not a class
             ELSE IF origin \in {"Union", "ClassVar"}
             THEN Returns(Raise("TypeError"))
             \* list
             ELSE IF origin = "list"
             THEN IF d.k \in {"list", "str", "dict"}
                  THEN decode_list(args[1], iterate(d), opts, <<>>, <<>>)
                  ELSE Returns(Raise("TypeError"))
             \* dict
             ELSE IF origin = "dict"
             THEN IF d.k = "dict"
                  THEN decode_dict(args[2], d.items, opts, <<>>, <<>>)
                  ELSE Returns(Raise("AttributeError"))
             \* default
             ELSE Returns(Raise("Exception"))
    \* dataclass
    ELSE IF is_dataclass(tp)
    THEN IF d.k # "dict" THEN Returns(Raise("AttributeError"))
         ELSE LET staged == decode_parameters(type_hints(tp.name), d.items,
                                              opts, <<>>, <<>>)
              IN  IF IsRaise(staged.ret) THEN staged
                  ELSE [ret |-> construct(tp.name,
                                    ensure_defaults(type_hints(tp.name),
                                                    staged.ret.items)),
                        invoked |-> staged.invoked]
    \* registered decoders
    ELSE LET decoder == find_decoder(__mro__(tp.name), opts)
         IN  IF decoder # "None"
             THEN [ret |-> call_decoder(decoder, tp, d), invoked |-> <<decoder>>]
             \* default
             ELSE Returns(d)

\* _decode without the check for None
_decode_no_none_check(tp, d, opts) == decode_typed(tp, d, opts)

_decode(tp, d, opts) ==
    IF d = None THEN Returns(None) ELSE decode_typed(tp, d, opts)

\* JsonEncoder.decode(type, data, options)
decode(tp, d, opts) == _decode(tp, d, opts)

(***************************************************************************)
(* The objects a call returns.  A value of the model has no identity, so   *)
(* the containers of the argument that the returned object is or holds are *)
(* computed beside the value, as the set of their paths in the argument: a *)
(* path is the sequence of positions (element of a list, entry of a dict   *)
(* or of an instance __dict__) that leads to the container.                *)
(***************************************************************************)
IsContainer(v) == v.k \in {"list", "tuple", "dict", "obj"}

\* the paths of S below position i
Below(i, S) == {<<i>> \o q : q \in S}

\* _try_encode: "value = [...]" and "value = {...}" bind new containers,
\* the final "return value" returns the argument itself
RECURSIVE _try_encode_shares(_, _)
_try_encode_shares(v, opts) ==
    IF v = None THEN {}
    ELSE IF v.k = "list" \/ v.k = "tuple"
    THEN UNION {Below(i, _try_encode_shares(v.items[i], opts)) : i \in 1..Len(v.items)}
    ELSE IF v.k = "dict"
    THEN UNION {Below(i, _try_encode_shares(v.items[i][2], opts)) : i \in 1..Len(v.items)}
    ELSE IF is_dataclass(v)
    THEN UNION {Below(i, _try_encode_shares(v.d[i][2], opts)) : i \in 1..Len(v.d)}
    ELSE IF find_encoder(__mro__(__class__(v)), opts) # "None" THEN {}
    ELSE IF IsContainer(v) THEN {<<>>} ELSE {}

\* _decode: "instance1 = list()", "instance2 = dict()" and typeCls(...) are
\* new containers, "return data" returns the argument itself
RECURSIVE _decode_shares(_, _, _)
\* _decode_shares for a list branch that returns the list it was given
_decode_shares_same_list(tp, d, opts) ==
    IF d = None THEN {}
    ELSE IF tp = Any THEN (IF IsContainer(d) THEN {<<>>} ELSE {})
    ELSE IF get_origin(tp) = "Union" THEN _decode_shares(get_args(tp)[1], d, opts)
    ELSE IF get_origin(tp) = "list"
    THEN IF d.k = "list" THEN {<<>>} ELSE {}
    ELSE IF get_origin(tp) = "dict"
    THEN IF d.k = "dict"
         THEN UNION {Below(i, _decode_shares(get_args(tp)[2], d.items[i][2], opts)) :
                       i \in 1..Len(d.items)}
         ELSE {}
    ELSE IF get_origin(tp) # "None" THEN {}
    ELSE IF is_dataclass(tp)
    THEN IF d.k = "dict"
         THEN LET key(i) == property_name_decoder(opts, d.items[i][1])
              IN  UNION { Below(i, _decode_shares(GetItem(type_hints(tp.name), key(i)),
                                                  d.items[i][2], opts)) :
                            i \in {j \in 1..Len(d.items) :
                                     /\ HasKey(type_hints(tp.name), key(j))
                                     /\ \A l \in (j + 1)..Len(d.items) : key(l) # key(j)} }
         ELSE {}
    ELSE IF find_decoder(__mro__(tp.name), opts) # "None" THEN {}
    ELSE IF IsContainer(d) THEN {<<>>} ELSE {}

_decode_shares(tp, d, opts) ==
    IF d = None THEN {}
    ELSE IF tp = Any THEN (IF IsContainer(d) THEN {<<>>} ELSE {})
    ELSE IF get_origin(tp) = "Union" THEN _decode_shares(get_args(tp)[1], d, opts)
    ELSE IF get_origin(tp) = "list"
    THEN IF d.k = "list"
         THEN UNION {Below(i, _decode_shares(get_args(tp)[1], d.items[i], opts)) :
                       i \in 1..Len(d.items)}
         ELSE {}
    ELSE IF get_origin(tp) = "dict"
    THEN IF d.k = "dict"
         THEN UNION {Below(i, _decode_shares(get_args(tp)[2], d.items[i][2], opts)) :
                       i \in 1..Len(d.items)}
         ELSE {}
    ELSE IF get_origin(tp) # "None" THEN {}
    ELSE IF is_dataclass(tp)
    THEN IF d.k = "dict"
         THEN LET key(i) == property_name_decoder(opts, d.items[i][1])
              IN  UNION { Below(i, _decode_shares(GetItem(type_hints(tp.name), key(i)),
                                                  d.items[i][2], opts)) :
                            i \in {j \in 1..Len(d.items) :
                                     /\ HasKey(type_hints(tp.name), key(j))
                                     /\ \A l \in (j + 1)..Len(d.items) : key(l) # key(j)} }
         ELSE {}
    ELSE IF find_decoder(__mro__(tp.name), opts) # "None" THEN {}
    ELSE IF IsContainer(d) THEN {<<>>} ELSE {}

\* a call of JsonEncoder.encode or JsonEncoder.decode with the bundle opts:
\* the value it returns or the error it raises, and the containers of the
\* argument that the returned object is or holds
call_codec(c, opts) ==
    IF c.kind = "encode"
    THEN [ret |-> encode(c.arg, opts), shares |-> _try_encode_shares(c.arg, opts)]
    ELSE LET r == decode(c.typeCls, c.arg, opts).ret
         IN  [ret |-> r,
              shares |-> IF IsRaise(r) THEN {} ELSE _decode_shares(c.typeCls, c.arg, opts)]

(***************************************************************************)
(* HsdsClient._invoke and HsdsAsyncClient._invoke.  A response is          *)
(*   [k |-> "Response", status_code |-> n, text |-> t, is_closed |-> b]    *)
(* with t = [raw |-> s, json |-> j]: j is <<tree>> when the text is the    *)
(* JSON document of the tree and <<>> when the text s is no JSON document. *)
(***************************************************************************)
Response(status_code, text) ==
    [k |-> "Response", status_code |-> status_code, text |-> text, is_closed |-> FALSE]

\* httpx.Response.is_success
is_success(resp) == resp.status_code \in 200..299

\* HsdsException(status_code, message)
HsdsException(status_code, message) ==
    [k |-> "raise", exc |-> "HsdsException",
     status_code |-> status_code, message |-> message]

\* type(None), the class
NoneType == Cls("NoneType")

\* json.loads(response.text)
json_loads(text) ==
    IF text.json = <<>> THEN Raise("JSONDecodeError") ELSE text.json[1]

\* response.close() / await response.aclose()
close(resp) == [resp EXCEPT !.is_closed = TRUE]

\* _invoke from "process response" on, that returns a None return_value
_invoke_returns_none(typeOfT, resp, opts) ==
    IF ~is_success(resp)
    THEN [ret |-> HsdsException("H00." \o str_of(resp.status_code),
                     "The HTTP request failed with status code "
                        \o str_of(resp.status_code) \o "."
                        \o (IF resp.text.raw = "" THEN ""
                            ELSE " The response message is: " \o resp.text.raw)),
          response |-> resp]
    ELSE IF typeOfT = NoneType
    THEN [ret |-> NoneType, response |-> close(resp)]
    ELSE IF typeOfT = Cls("Response")
    THEN [ret |-> resp, response |-> resp]
    ELSE LET jsonObject == json_loads(resp.text)
         IN  [ret |-> IF IsRaise(jsonObject) THEN jsonObject
                      ELSE decode(typeOfT, jsonObject, opts).ret,
              response |-> close(resp)]

\* _invoke from "process response" on: what the call returns or raises, and
\* the response when the call is over
_invoke(typeOfT, resp, opts) ==
    IF ~is_success(resp)
    THEN [ret |-> HsdsException("H00." \o str_of(resp.status_code),
                     "The HTTP request failed with status code "
                        \o str_of(resp.status_code) \o "."
                        \o (IF resp.text.raw = "" THEN ""
                            ELSE " The response message is: " \o resp.text.raw)),
          response |-> resp]
    ELSE IF typeOfT = NoneType
    THEN [ret |-> NoneType, response |-> close(resp)]
    ELSE IF typeOfT = Cls("Response")
    THEN [ret |-> resp, response |-> resp]
    ELSE LET jsonObject == json_loads(resp.text)
             return_value == decode(typeOfT, jsonObject, opts).ret
         IN  [ret |-> IF IsRaise(jsonObject) THEN jsonObject
                      ELSE IF return_value = None
                      THEN HsdsException("H01", "Response data could not be deserialized.")
                      ELSE return_value,
              response |-> close(resp)]

(***************************************************************************)
(* Inputs: the values of a type, and the wire trees decoded against it.    *)
(***************************************************************************)
\* sequences over S of length 0..n
RECURSIVE SeqsUpTo(_, _)
SeqsUpTo(S, n) ==
    IF n = 0 THEN {<<>>}
    ELSE LET shorter == SeqsUpTo(S, n - 1)
         IN  shorter \cup {Append(q, x) : q \in {r \in shorter : Len(r) = n - 1}, x \in S}

\* the keys of the dict values
DictKeys == {"last_modified", "lastModified"}

\* dict items: up to n entries with distinct keys from DictKeys, values from S
DictItems(S, n) ==
    { q \in SeqsUpTo(DictKeys \X S, n) :
        \A i, j \in 1..Len(q) : i # j => q[i][1] # q[j][1] }

RECURSIVE ValuesOf(_)

\* the __dict__ of the instances of a dataclass with the given fields
RECURSIVE InstanceDicts(_)
InstanceDicts(fs) ==
    IF fs = <<>> THEN {<<>>}
    ELSE { <<<<Head(fs)[1], v>>>> \o rest :
              v \in ValuesOf(Head(fs)[2]), rest \in InstanceDicts(Tail(fs)) }

\* the values that conform to a type
ValuesOf(tp) ==
    CASE tp = Any -> {None, PyInt(7), PyStr("g1")}
      [] tp.t = "generic" /\ tp.origin = "Union" ->
            ValuesOf(tp.args[1]) \cup {None}
      [] tp.t = "generic" /\ tp.origin = "list" ->
            {PyList(q) : q \in SeqsUpTo(ValuesOf(tp.args[1]), MaxLen)}
      [] tp.t = "generic" /\ tp.origin = "tuple" ->
            {PyTuple(q) : q \in SeqsUpTo(ValuesOf(tp.args[1]), MaxLen)}
      [] tp.t = "generic" /\ tp.origin = "dict" ->
            {PyDict(q) : q \in DictItems(ValuesOf(tp.args[2]), MaxLen)}
      [] tp.t = "cls" /\ tp.name \in Dataclasses ->
            {Obj(tp.name, d) : d \in InstanceDicts(fields(tp.name))}
      [] tp.t = "cls" /\ tp.name \in Enums ->
            {EnumMember(tp.name, m) : m \in _member_map_(tp.name)}
      [] tp = Cls("int") -> {PyInt(0), PyInt(7)}
      [] tp = Cls("float") -> {PyFloat(0), PyFloat(15)}
      [] tp = Cls("bool") -> {PyBool(TRUE), PyBool(FALSE)}
      [] tp = Cls("str") -> {PyStr("g1"), PyStr("H5T_INTEGER")}
      [] tp = Cls("object") -> {PyInt(7), PyStr("g1")}
      [] tp = Cls("timedelta") ->
            { timedelta(0, 0, 0, 0, 0), timedelta(0, 1, 2, 3, 1234560),
              timedelta(3000, 0, 8, 7, 1250000),
              \* timedelta(microseconds=-1)
              [k |-> "timedelta", days |-> -1, seconds |-> 86399,
               microseconds |-> 999999] }
      [] tp = Cls("datetime") ->
            { datetime(2020, 1, 2, 3, 4, 5, 0, <<0>>),
              datetime(2020, 1, 2, 3, 4, 5, 123456, <<0>>),
              datetime(2020, 1, 2, 3, 4, 5, 0, <<3600>>),
              datetime(2020, 1, 2, 3, 4, 5, 123456, <<3600>>),
              datetime(2020, 1, 2, 3, 4, 5, 0, <<>>),
              datetime(1999, 12, 31, 23, 59, 59, 999999, <<0>>) }
      [] tp = Cls("UUID") -> {[k |-> "UUID", hex |-> "12345678123456781234abcdef345678"]}

\* the field names that the dataclasses of the client declare
FieldVocabulary ==
    { "acl", "acls", "alias", "attribute_count", "attributes", "base",
      "class_", "collection", "create", "created", "creation_properties",
      "datasets", "delete", "dims", "domain", "fields", "for_whom",
      "groups", "href", "hrefs", "id", "index", "last_modified", "layout",
      "link", "link_count", "links", "maxdims", "name", "owner", "read",
      "read_acl", "rel", "root", "shape", "target", "title", "type",
      "update", "update_acl", "username", "value" }

\* the names over a lower-case letter, an upper-case letter, a digit and "_"
\* of length 0..n
RECURSIVE Names(_)
Names(n) ==
    IF n = 0 THEN {""}
    ELSE LET shorter == Names(n - 1)
         IN  shorter \cup {s \o c : s \in {r \in shorter : Len(r) = n - 1},
                                     c \in {"a", "B", "1", "_"}}

\* the types a call is made with
Types ==
    {Cls(c) : c \in Dataclasses \cup Enums}
        \cup { Any, Cls("int"), Cls("float"), Cls("bool"), Cls("str"), Cls("object"),
               Cls("timedelta"), Cls("datetime"), Cls("UUID"),
               Optional(Cls("Counter")), Optional(Cls("Color")),
               ListOf(Cls("Lease")), ListOf(Cls("str")),
               ListOf(Cls("Counter")), TupleOf(Cls("int")),
               DictOf(Cls("str"), Optional(Cls("Counter"))) }

\* wire trees that are not the encoding of a value of the target type
Misshapen ==
    { None, PyInt(7), PyFloat(15), PyBool(TRUE), PyStr("bogusValue"),
      PyStr("darkBlue"), PyStr("DARK_BLUE"),
      PyList(<<PyInt(7)>>), PyDict(<<<<"extraKey", PyInt(7)>>>>) }

\* wire strings that a registered decoder rejects
InvalidScalars(tp) ==
    CASE tp = Cls("timedelta") -> {"bogusValue", "1:02:03"}
      [] tp = Cls("datetime") -> {"bogusValue", "2020-13-02T03:04:05Z"}
      [] tp = Cls("UUID") -> {"bogusValue"}
      [] OTHER -> {}

\* wire strings of other writers that a registered decoder accepts
ForeignScalars(tp) ==
    CASE tp = Cls("timedelta") -> {"12:08:07"}
      [] tp = Cls("datetime") -> {"2020-01-02T03:04:05.1234567Z"}
      [] tp = Cls("UUID") -> {"ABCDEF78-1234-5678-1234-567812345678"}
      [] OTHER -> {}

\* duration strings D.HH:MM:SS.fffffff as _encode_timedelta writes them
CanonicalDurations ==
    { days \o "." \o hh \o ":" \o mm \o ":" \o ss \o "." \o fraction :
        days \in {"0", "1", "3000"}, hh \in {"00", "01", "23"},
        mm \in {"00", "08", "59"}, ss \in {"00", "07", "59"},
        fraction \in {"0000000", "0000010", "1250000", "9999990"} }

\* duration strings of other writers whose seventh fractional digit is not 0
TickDurations ==
    { "0." \o clock \o "." \o fraction :
        clock \in {"00:00:00", "00:00:59", "23:59:59"},
        fraction \in {"0000004", "0000005", "0000015", "0000019", "0000025",
                      "1234567", "9999994", "9999995", "9999999"} }

\* the target of a field without its Optional
Unwrapped(tp) ==
    IF get_origin(tp) = "Union" THEN get_args(tp)[1] ELSE tp

RECURSIVE WireItems(_, _)

\* the wire lists for list[X], X a record: lists of wire maps of X
ElementLists(tp, names) ==
    IF get_origin(tp) = "list" /\ get_args(tp)[1] = Cls("Lease")
    THEN {PyList(q) : q \in SeqsUpTo({PyDict(m) : m \in WireItems(type_hints("Lease"), names)},
                                     MaxLen)}
    ELSE {}

\* what a wire map may hold for a field: nothing, null, or an encoded value
FieldNodes(tp, names) ==
    {[present |-> FALSE, node |-> None], [present |-> TRUE, node |-> None]}
        \cup {[present |-> TRUE, node |-> encode(v, names)] : v \in ValuesOf(tp)}
        \cup (IF tp \in {Cls("Color"), Optional(Cls("Color"))}
              THEN {[present |-> TRUE, node |-> PyStr("bogusValue")]}
              ELSE {})
        \cup {[present |-> TRUE, node |-> PyStr(w)] :
                 w \in InvalidScalars(Unwrapped(tp)) \cup ForeignScalars(Unwrapped(tp))}
        \cup {[present |-> TRUE, node |-> n] : n \in ElementLists(tp, names)}

\* the wire maps for the given type hints, named by the bundle names
WireItems(hints, names) ==
    IF hints = <<>> THEN {<<>>}
    ELSE { (IF c.present
            THEN <<<<property_name_encoder(names, Head(hints)[1]), c.node>>>>
            ELSE <<>>) \o rest :
              c \in IF get_origin(Head(hints)[2]) = "ClassVar"
                    THEN {[present |-> FALSE, node |-> None],
                          [present |-> TRUE, node |-> None],
                          [present |-> TRUE, node |-> PyInt(7)]}
                    ELSE FieldNodes(Head(hints)[2], names),
              rest \in WireItems(Tail(hints), names) }

\* a wire key that is no field of any class, under either naming
ExtraItem == <<"extraKey", PyInt(7)>>

WireMaps(cls, names) ==
    LET base == WireItems(type_hints(cls), names)
    IN  {PyDict(q) : q \in base}
            \cup {PyDict(<<ExtraItem>> \o q) : q \in base}
            \cup {PyDict(Append(q, ExtraItem)) : q \in base}

\* the wire trees decoded against a type
DataFor(tp, names) ==
    IF is_dataclass(tp)
    THEN WireMaps(tp.name, names) \cup Misshapen
    ELSE {encode(v, names) : v \in ValuesOf(tp)}
            \cup {PyStr(w) : w \in InvalidScalars(tp) \cup ForeignScalars(tp)}
            \cup (IF tp = Cls("timedelta")
                  THEN {PyStr(w) : w \in CanonicalDurations \cup TickDurations}
                  ELSE {})
            \cup ElementLists(tp, names)
            \* datetime: value[0:26] of a dict is a TypeError or a KeyError,
            \* as the interpreter has it
            \cup {m \in Misshapen : tp = Cls("datetime") => m.k # "dict"}

\* the classes with an _invoke method
Clients == {"HsdsClient", "HsdsAsyncClient"}

\* the types _invoke is called with
InvokeTypes ==
    {NoneType, Cls("Response"), Cls("Counter"), Cls("Lease"), ListOf(Cls("Counter"))}

\* the response texts of the server
Texts(typeOfT) ==
    {[raw |-> "", json |-> <<>>], [raw |-> "Not Found", json |-> <<>>]}
        \cup {[raw |-> "(json)", json |-> <<d>>] :
                 d \in IF typeOfT \in {NoneType, Cls("Response")} THEN {None}
                       ELSE {encode(v, _json_encoder_options) : v \in ValuesOf(typeOfT)}
                               \cup {PyStr(w) : w \in InvalidScalars(typeOfT)}
                               \cup ElementLists(typeOfT, _json_encoder_options)
                               \cup Misshapen
                               \cup (IF is_dataclass(typeOfT)
                                     THEN {PyDict(m) : m \in WireItems(type_hints(typeOfT.name),
                                                                  _json_encoder_options)}
                                     ELSE {})}

\* the responses of the server
Responses(typeOfT) ==
    {Response(status_code, text) : status_code \in {200, 204, 404, 500},
                                   text \in Texts(typeOfT)}

(***************************************************************************)
(* The calls.                                                              *)
(***************************************************************************)
Threads == 1..MaxThreads

\* a thread that is in no call
NoCall == [kind |-> "None"]

NoReturn == [ret |-> None, shares |-> {}]

Init ==
    /\ op = "idle"
    /\ options = JsonEncoderOptions
    /\ typeCls = Any
    /\ value = None
    /\ data = None
    /\ result = None
    /\ invoked = <<>>
    /\ client_options = _json_encoder_options_constructed
    /\ module_pc = "line 241"
    /\ client = "None"
    /\ response = None
    /\ thread_pc = [t \in Threads |-> "idle"]
    /\ thread_call = [t \in Threads |-> NoCall]
    /\ thread_ret = [t \in Threads |-> NoReturn]
    /\ heap = <<JsonEncoderOptions.encoders, JsonEncoderOptions.decoders>>
    /\ bundles = <<>>
    /\ options_arg = NotCalled

\* _json_encoder_options.encoders[Enum] = lambda value: to_camel_case(value.name)
SetEnumEncoder ==
    /\ UNCHANGED thread_vars
    /\ module_pc = "line 241"
    /\ client_options' = [client_options EXCEPT
                             !.encoders.Enum = "to_camel_case(value.name)"]
    /\ heap' = [heap EXCEPT ![_json_encoder_options_registries.encoders] =
                    set_entry(@, "Enum", "to_camel_case(value.name)")]
    /\ module_pc' = "line 242"
    /\ UNCHANGED call_vars
    /\ UNCHANGED <<bundles, options_arg>>

\* _json_encoder_options.decoders[Enum] =
\*     lambda typeCls, value: cast(Type[Enum], typeCls)[to_snake_case(value).upper()]
SetEnumDecoder ==
    /\ UNCHANGED thread_vars
    /\ module_pc = "line 242"
    /\ client_options' = [client_options EXCEPT
                             !.decoders.Enum = "typeCls[to_snake_case(value).upper()]"]
    /\ heap' = [heap EXCEPT ![_json_encoder_options_registries.decoders] =
                    set_entry(@, "Enum", "typeCls[to_snake_case(value).upper()]")]
    /\ module_pc' = "loaded"
    /\ UNCHANGED call_vars
    /\ UNCHANGED <<bundles, options_arg>>

\* the bundles a call is made with: JsonEncoderOptions() and the bundle of
\* the client
CallBundles == {JsonEncoderOptions, client_options}

\* the types a call with the bundle RegisteredOptions is made with
RegisteredTypes ==
    { Cls("Color"), Cls("LinkClass"), Cls("Pixel"), Cls("Counter"),
      Cls("int"), Cls("bool"), Cls("object") }

\* the declared type and the bundle of a call
CallsWith ==
    (Types \X CallBundles) \cup (RegisteredTypes \X {RegisteredOptions})

\* JsonEncoder.encode(v, o) of a value v of declared type tp
Encode ==
    /\ UNCHANGED thread_vars
    /\ UNCHANGED bundle_vars
    /\ op = "idle"
    /\ module_pc = "loaded"
    /\ UNCHANGED <<client_options, module_pc, client, response>>
    /\ \E c \in CallsWith :
          \E v \in ValuesOf(c[1]) :
             /\ op' = "encode"
             /\ options' = c[2]
             /\ typeCls' = c[1]
             /\ value' = v
             /\ data' = None
             /\ result' = encode(v, c[2])
             /\ invoked' = <<>>

\* JsonEncoder.decode(typeCls, tree, options) of the tree just encoded
DecodeEncoded ==
    /\ UNCHANGED thread_vars
    /\ UNCHANGED bundle_vars
    /\ op = "encode"
    /\ LET r == decode(typeCls, result, options)
       IN  /\ op' = "roundtrip"
           /\ data' = result
           /\ result' = r.ret
           /\ invoked' = r.invoked
    /\ UNCHANGED <<options, typeCls, value>>
    /\ UNCHANGED <<client_options, module_pc, client, response>>

\* JsonEncoder.decode(tp, d, o) of a wire tree d
Decode ==
    /\ UNCHANGED thread_vars
    /\ UNCHANGED bundle_vars
    /\ op = "idle"
    /\ module_pc = "loaded"
    /\ UNCHANGED <<client_options, module_pc, client, response>>
    /\ \E c \in CallsWith :
          \E names \in CallBundles \cup {c[2]} :
             \E d \in DataFor(c[1], names) :
                LET r == decode(c[1], d, c[2])
                IN  /\ op' = "decode"
                    /\ options' = c[2]
                    /\ typeCls' = c[1]
                    /\ value' = None
                    /\ data' = d
                    /\ result' = r.ret
                    /\ invoked' = r.invoked

\* JsonEncoder.encode(v, options) of the scalar value v just decoded
EncodeDecoded ==
    /\ UNCHANGED thread_vars
    /\ UNCHANGED bundle_vars
    /\ op = "decode"
    /\ typeCls \in {Cls("timedelta"), Cls("datetime"), Cls("UUID")}
    /\ ~IsRaise(result)
    /\ op' = "reencode"
    /\ value' = result
    /\ result' = encode(result, options)
    /\ invoked' = <<>>
    /\ UNCHANGED <<options, typeCls, data>>
    /\ UNCHANGED <<client_options, module_pc, client, response>>

\* a field name through options.property_name_encoder and the wire name
\* through options.property_name_decoder
Rename ==
    /\ UNCHANGED thread_vars
    /\ UNCHANGED bundle_vars
    /\ op = "idle"
    /\ module_pc = "loaded"
    /\ UNCHANGED <<client_options, module_pc, client, response>>
    /\ \E name \in FieldVocabulary, o \in CallBundles :
          LET wire == property_name_encoder(o, name)
          IN  /\ op' = "rename"
              /\ options' = o
              /\ typeCls' = Cls("str")
              /\ value' = PyStr(name)
              /\ data' = PyStr(wire)
              /\ result' = PyStr(property_name_decoder(o, wire))
              /\ invoked' = <<>>

\* _invoke up to "send request": the response has arrived
Send ==
    /\ UNCHANGED thread_vars
    /\ UNCHANGED bundle_vars
    /\ op = "idle"
    /\ module_pc = "loaded"
    /\ UNCHANGED <<client_options, module_pc>>
    /\ \E c \in Clients, typeOfT \in InvokeTypes :
          \E resp \in Responses(typeOfT) :
             /\ op' = "send"
             /\ client' = c
             /\ typeCls' = typeOfT
             /\ response' = resp
             /\ options' = client_options
             /\ value' = None
             /\ data' = None
             /\ result' = None
             /\ invoked' = <<>>

\* Invoke that registers the default Enum decoder in the bundle it uses
InvokeRegistering ==
    /\ UNCHANGED thread_vars
    /\ UNCHANGED bundle_vars
    /\ op = "send"
    /\ LET r == _invoke(typeCls, response, client_options)
       IN  /\ op' = "invoke"
           /\ result' = r.ret
           /\ response' = r.response
    /\ client_options' = [client_options EXCEPT !.decoders.Enum = "typeCls[value]"]
    /\ UNCHANGED <<options, typeCls, value, data, invoked, client, module_pc>>

\* _invoke from "process response" to its end, the finally block included
Invoke ==
    /\ UNCHANGED thread_vars
    /\ UNCHANGED bundle_vars
    /\ op = "send"
    /\ LET r == _invoke(typeCls, response, client_options)
       IN  /\ op' = "invoke"
           /\ result' = r.ret
           /\ response' = r.response
    /\ UNCHANGED <<options, typeCls, value, data, invoked, client,
                   client_options, module_pc>>

\* to_camel_case(name)
ToCamelCase ==
    /\ UNCHANGED thread_vars
    /\ UNCHANGED bundle_vars
    /\ op = "idle"
    /\ module_pc = "loaded"
    /\ UNCHANGED <<client_options, module_pc, client, response>>
    /\ \E name \in FieldVocabulary \cup Names(MaxName) :
          /\ op' = "to_camel_case"
          /\ options' = JsonEncoderOptions
          /\ typeCls' = Cls("str")
          /\ value' = PyStr(name)
          /\ data' = None
          /\ result' = PyStr(to_camel_case(name))
          /\ invoked' = <<>>

\* the calls of the threads
ThreadCalls ==
    LET counter == Obj("Counter", << <<"count", PyInt(7)>>, <<"label", PyStr("g1")>> >>)
        wire    == PyDict(<< <<"count", PyInt(7)>>, <<"label", PyStr("g1")>> >>)
        enc(tp, v) == [kind |-> "encode", typeCls |-> tp, arg |-> v]
        dec(tp, d) == [kind |-> "decode", typeCls |-> tp, arg |-> d]
    IN  { enc(Cls("Pixel"), Obj("Pixel", << <<"color", EnumMember("Color", "DARK_BLUE")>>,
                                           <<"shade", None>> >>)),
          enc(ListOf(Optional(Cls("Counter"))), PyList(<<counter, None>>)),
          enc(DictOf(Cls("str"), Optional(Cls("Counter"))),
              PyDict(<< <<"last_modified", counter>> >>)),
          enc(Cls("timedelta"), timedelta(0, 1, 2, 3, 1234560)),
          enc(TupleOf(Cls("int")), PyTuple(<<PyInt(7)>>)),
          dec(Cls("Pixel"), PyDict(<< <<"color", PyStr("darkBlue")>> >>)),
          dec(Cls("Pixel"), PyDict(<< <<"color", PyStr("DARK_BLUE")>> >>)),
          dec(ListOf(Cls("Counter")), PyList(<<wire>>)),
          dec(Cls("Catalog"), PyDict(<< <<"lastModified", PyFloat(15)>>,
                                        <<"table", PyDict(<< <<"g1", wire>> >>)>> >>)),
          dec(Cls("Lease"), PyDict(<< <<"period", PyStr("bogusValue")>> >>)),
          dec(Any, PyList(<<PyInt(7)>>)),
          dec(ListOf(Cls("object")), PyList(<<PyInt(7), wire>>)),
          dec(DictOf(Cls("str"), Any), PyDict(<< <<"g1", PyList(<<wire>>)>> >>)),
          dec(Cls("int"), PyInt(7)) }

\* a thread calls JsonEncoder.encode or JsonEncoder.decode with the bundle
\* of the client
Call(t) ==
    /\ module_pc = "loaded"
    /\ thread_pc[t] = "idle"
    /\ \E c \in ThreadCalls :
          thread_call' = [thread_call EXCEPT ![t] = c]
    /\ thread_pc' = [thread_pc EXCEPT ![t] = "called"]
    /\ UNCHANGED <<thread_ret, client_options, module_pc>>
    /\ UNCHANGED call_vars
    /\ UNCHANGED bundle_vars

\* Run that leaves the default Enum codec in the bundle
RunRegistering(t) ==
    /\ thread_pc[t] = "called"
    /\ thread_ret' = [thread_ret EXCEPT ![t] = call_codec(thread_call[t], client_options)]
    /\ thread_pc' = [thread_pc EXCEPT ![t] = "returned"]
    /\ client_options' = [client_options EXCEPT !.encoders.Enum = "value.name",
                                                !.decoders.Enum = "typeCls[value]"]
    /\ UNCHANGED <<thread_call, module_pc>>
    /\ UNCHANGED call_vars
    /\ UNCHANGED bundle_vars

\* the call of the thread runs to its end: it reads the bundle and the
\* argument and writes neither
Run(t) ==
    /\ thread_pc[t] = "called"
    /\ thread_ret' = [thread_ret EXCEPT ![t] = call_codec(thread_call[t], client_options)]
    /\ thread_pc' = [thread_pc EXCEPT ![t] = "returned"]
    /\ UNCHANGED <<thread_call, client_options, module_pc>>
    /\ UNCHANGED call_vars
    /\ UNCHANGED bundle_vars

\* the thread has taken the result of its call
Finish(t) ==
    /\ thread_pc[t] = "returned"
    /\ thread_pc' = [thread_pc EXCEPT ![t] = "idle"]
    /\ thread_call' = [thread_call EXCEPT ![t] = NoCall]
    /\ thread_ret' = [thread_ret EXCEPT ![t] = NoReturn]
    /\ UNCHANGED <<client_options, module_pc>>
    /\ UNCHANGED call_vars
    /\ UNCHANGED bundle_vars

\* a caller constructs a bundle: JsonEncoderOptions()
Construct ==
    /\ UNCHANGED thread_vars
    /\ op = "idle"
    /\ module_pc = "loaded"
    /\ Len(bundles) < MaxBundles
    /\ LET new == JsonEncoderOptions__init__(heap)
       IN  /\ heap' = new.heap
           /\ bundles' = Append(bundles, new.bundle)
    /\ UNCHANGED <<options_arg, client_options, module_pc>>
    /\ UNCHANGED call_vars

\* the entries that callers write into the registries of their bundles: the
\* Enum entries as the client writes them, and a new entry for Color
Registrations ==
    { [registry |-> "encoders", key |-> "Enum", callable |-> "to_camel_case(value.name)"],
      [registry |-> "decoders", key |-> "Enum",
       callable |-> "typeCls[to_snake_case(value).upper()]"],
      [registry |-> "encoders", key |-> "Color", callable |-> "value.name.lower()"] }

\* a caller adds or replaces an entry of a registry of one of its bundles:
\* bundle.encoders[key] = callable, bundle.decoders[key] = callable
Register ==
    /\ UNCHANGED thread_vars
    /\ op = "idle"
    /\ module_pc = "loaded"
    /\ \E i \in 1..Len(bundles), e \in Registrations :
          heap' = [heap EXCEPT ![bundles[i][e.registry]] = set_entry(@, e.key, e.callable)]
    /\ UNCHANGED <<bundles, options_arg, client_options, module_pc>>
    /\ UNCHANGED call_vars

\* the enumeration members that the calls with bundle objects encode
Members == ValuesOf(Cls("Color")) \cup ValuesOf(Cls("LinkClass"))

\* JsonEncoder.encode(v) without options: the call constructs its bundle,
\* JsonEncoderOptions(), which no one holds when the call is over
EncodeWithoutOptions ==
    /\ UNCHANGED thread_vars
    /\ op = "idle"
    /\ module_pc = "loaded"
    /\ \E v \in Members :
          LET new == JsonEncoderOptions__init__(heap)
              o   == bundle_at(new.bundle, new.heap)
          IN  /\ op' = "encode"
              /\ options' = o
              /\ typeCls' = Cls(v.cls)
              /\ value' = v
              /\ data' = None
              /\ result' = encode(v, o)
              /\ invoked' = <<>>
    /\ options_arg' = NoOptions
    /\ UNCHANGED <<heap, bundles, client_options, module_pc, client, response>>

\* JsonEncoder.encode(v, b) with a bundle b that the caller has constructed
EncodeWithBundle ==
    /\ UNCHANGED thread_vars
    /\ op = "idle"
    /\ module_pc = "loaded"
    /\ \E i \in 1..Len(bundles), v \in Members :
          LET o == bundle_at(bundles[i], heap)
          IN  /\ op' = "encode"
              /\ options' = o
              /\ typeCls' = Cls(v.cls)
              /\ value' = v
              /\ data' = None
              /\ result' = encode(v, o)
              /\ invoked' = <<>>
              /\ options_arg' = Bundle(i)
    /\ UNCHANGED <<heap, bundles, client_options, module_pc, client, response>>

\* JsonEncoder.decode(tp, d) without options, of the tree that the call
\* without options has encoded: the call constructs its own bundle
DecodeWithoutOptions ==
    /\ UNCHANGED thread_vars
    /\ op = "encode"
    /\ options_arg = NoOptions
    /\ LET new == JsonEncoderOptions__init__(heap)
           o   == bundle_at(new.bundle, new.heap)
           r   == decode(typeCls, result, o)
       IN  /\ op' = "roundtrip"
           /\ options' = o
           /\ data' = result
           /\ result' = r.ret
           /\ invoked' = r.invoked
    /\ UNCHANGED <<typeCls, value, bundle_vars>>
    /\ UNCHANGED <<client_options, module_pc, client, response>>

\* JsonEncoder.decode(tp, d, b) with the bundle b that has encoded d
DecodeWithBundle ==
    /\ UNCHANGED thread_vars
    /\ op = "encode"
    /\ options_arg \in {Bundle(i) : i \in 1..Len(bundles)}
    /\ LET o == bundle_at(bundles[options_arg.i], heap)
           r == decode(typeCls, result, o)
       IN  /\ op' = "roundtrip"
           /\ options' = o
           /\ data' = result
           /\ result' = r.ret
           /\ invoked' = r.invoked
    /\ UNCHANGED <<typeCls, value, bundle_vars>>
    /\ UNCHANGED <<client_options, module_pc, client, response>>

\* the call has returned to its caller
Return ==
    /\ UNCHANGED thread_vars
    /\ op # "idle"
    /\ op' = "idle"
    /\ options' = JsonEncoderOptions
    /\ typeCls' = Any
    /\ value' = None
    /\ data' = None
    /\ result' = None
    /\ invoked' = <<>>
    /\ client' = "None"
    /\ response' = None
    /\ options_arg' = NotCalled
    /\ UNCHANGED <<client_options, module_pc, heap, bundles>>

Next ==
    \/ SetEnumEncoder
    \/ SetEnumDecoder
    \/ Encode
    \/ DecodeEncoded
    \/ Decode
    \/ EncodeDecoded
    \/ Rename
    \/ ToCamelCase
    \/ Send
    \/ Invoke
    \/ Return

Spec == Init /\ [][Next]_vars

\* the module body, then threads that call the codec concurrently
ThreadNext ==
    \/ SetEnumEncoder
    \/ SetEnumDecoder
    \/ \E t \in Threads : Call(t)
    \/ \E t \in Threads : Run(t)
    \/ \E t \in Threads : Finish(t)

ThreadSpec == Init /\ [][ThreadNext]_vars

\* the module body, then callers that construct bundles, write into their
\* registries and call the codec with them or without options
BundleNext ==
    \/ SetEnumEncoder
    \/ SetEnumDecoder
    \/ Construct
    \/ Register
    \/ EncodeWithoutOptions
    \/ EncodeWithBundle
    \/ DecodeWithoutOptions
    \/ DecodeWithBundle
    \/ Return

BundleSpec == Init /\ [][BundleNext]_vars

TypeOK ==
    /\ op \in {"idle", "encode", "roundtrip", "decode", "reencode", "rename", "to_camel_case",
              "send", "invoke"}
    /\ module_pc \in {"line 241", "line 242", "loaded"}
    /\ client \in Clients \cup {"None"}
    /\ options_arg = NotCalled => options \in Bundles \cup {RegisteredOptions}
    /\ options_arg \in {NotCalled, NoOptions} \cup {Bundle(i) : i \in 1..Len(bundles)}
    /\ client_options.encoders = heap[_json_encoder_options_registries.encoders]
    /\ client_options.decoders = heap[_json_encoder_options_registries.decoders]
    /\ \A i \in 1..Len(bundles) :
          bundles[i].encoders \in 1..Len(heap) /\ bundles[i].decoders \in 1..Len(heap)

(***************************************************************************)
(* Properties.                                                             *)
(***************************************************************************)
\* the keys of dict items, in order
Keys(items) == [i \in 1..Len(items) |-> items[i][1]]

\* a type built from primitives, records, Optional, list and dict only
RECURSIVE PlainShape(_)
PlainShape(tp) ==
    CASE tp.t = "generic" /\ tp.origin \in {"Union", "list"} -> PlainShape(tp.args[1])
      [] tp.t = "generic" /\ tp.origin = "dict" -> PlainShape(tp.args[2])
      [] tp.t = "cls" /\ tp.name \in Dataclasses ->
            \A i \in 1..Len(fields(tp.name)) : PlainShape(fields(tp.name)[i][2])
      [] tp.t = "cls" /\ tp.name \notin Dataclasses ->
            tp.name \in {"int", "float", "str", "bool"}
      [] OTHER -> FALSE

\* the wire tree of the current call: the result of encode, the input of decode
Tree == IF op = "encode" THEN result ELSE data

\* a record target was decoded from a wire map into an instance
DecodedRecord ==
    /\ op = "decode"
    /\ is_dataclass(typeCls)
    /\ data.k = "dict"
    /\ result.k = "obj"

\* the wire entries whose key decodes to the field name f
Matching(f) ==
    {j \in 1..Len(data.items) : property_name_decoder(options, data.items[j][1]) = f}

\* C1: a record value of plain field shapes (primitives, nested records,
\* Optional, list, dict) that is encoded and decoded against its type comes
\* back equal, element order and None elements included.
RecordRoundTrip ==
    (op = "roundtrip" /\ is_dataclass(typeCls) /\ PlainShape(typeCls))
        => result = value

RecordRoundTripWitness ==
    /\ op = "roundtrip"
    /\ options = _json_encoder_options
    /\ typeCls = Cls("Batch")
    /\ Len(GetItem(value.d, "items").items) = 2
    /\ GetItem(value.d, "items").items[1] = None
    /\ GetItem(value.d, "items").items[2] # None
    /\ result = value

\* C2: every field of the record that no wire key matches is 0 when it is
\* declared int, 0.0 when declared float and None otherwise; {} decoded
\* against Counter(count: int, label: Optional[str]) is Counter(0, None).
DefaultBackfill ==
    /\ DecodedRecord =>
          \A i \in 1..Len(fields(typeCls.name)) :
             LET f  == fields(typeCls.name)[i][1]
                 tp == fields(typeCls.name)[i][2]
             IN  Matching(f) = {} =>
                    GetItem(result.d, f) =
                        IF tp = Cls("int") THEN PyInt(0)
                        ELSE IF tp = Cls("float") THEN PyFloat(0)
                        ELSE None
    /\ (op = "decode" /\ typeCls = Cls("Counter") /\ data = PyDict(<<>>)) =>
          result = Obj("Counter", << <<"count", PyInt(0)>>, <<"label", None>> >>)

DefaultBackfillWitness ==
    /\ op = "decode"
    /\ typeCls = Cls("Reading")
    /\ data = PyDict(<<ExtraItem>>)
    /\ result = Obj("Reading", << <<"ratio", PyFloat(0)>>, <<"flag", None>> >>)

\* C3: a field whose wire key is present with value null is None in the
\* decoded record, also when the field is declared int or float.
PresentNullStaysNull ==
    DecodedRecord =>
       \A i \in 1..Len(fields(typeCls.name)) :
          LET f == fields(typeCls.name)[i][1]
          IN  (Matching(f) # {} /\ \A j \in Matching(f) : data.items[j][2] = None)
                 => GetItem(result.d, f) = None

PresentNullStaysNullWitness ==
    /\ op = "decode"
    /\ options = _json_encoder_options
    /\ typeCls = Cls("Counter")
    /\ data = PyDict(<< <<"count", None>> >>)
    /\ result = Obj("Counter", << <<"count", None>>, <<"label", None>> >>)

ReservedWordOverride ==
    /\ (/\ op \in {"encode", "roundtrip"}
        /\ options = _json_encoder_options
        /\ value.k = "obj"
        /\ HasKey(value.d, "class_")) =>
          /\ HasKey(Tree.items, "class")
          /\ ~HasKey(Tree.items, "class_")
          /\ GetItem(Tree.items, "class") = encode(GetItem(value.d, "class_"), options)
    /\ (/\ op \in {"decode", "roundtrip"}
        /\ options = _json_encoder_options
        /\ is_dataclass(typeCls)
        /\ HasKey(fields(typeCls.name), "class_")
        /\ data.k = "dict"
        /\ HasKey(data.items, "class")
        /\ ~HasKey(data.items, "class_")) =>
          /\ result.k = "obj"
          /\ GetItem(result.d, "class_") = GetItem(data.items, "class")

ReservedWordOverrideWitness ==
    /\ op = "roundtrip"
    /\ options = _json_encoder_options
    /\ typeCls = Cls("GetDatasetResponseTypeType")
    /\ GetItem(value.d, "class_") = PyStr("H5T_INTEGER")
    /\ GetItem(data.items, "class") = PyStr("H5T_INTEGER")
    /\ GetItem(result.d, "class_") = PyStr("H5T_INTEGER")

\* C6: under the naming policy of the client every field name of the
\* client's dataclasses comes back from its wire name, and last_modified is
\* lastModified on the wire.
NamingRoundTrip ==
    (op = "rename" /\ options = _json_encoder_options) =>
       /\ result = value
       /\ value = PyStr("last_modified") => data = PyStr("lastModified")

NamingRoundTripWitness ==
    /\ op = "rename"
    /\ options = _json_encoder_options
    /\ value = PyStr("last_modified")
    /\ data = PyStr("lastModified")
    /\ result = PyStr("last_modified")

\* C7: the encoding of a record is a map with one entry per field of the
\* record, in declaration order, keyed by the wire name of the field; a
\* field that is None has the entry None.
EncodeEmitsEveryField ==
    (op = "encode" /\ value.k = "obj") =>
       LET fs == fields(value.cls)
       IN  /\ result.k = "dict"
           /\ Len(result.items) = Len(fs)
           /\ \A i \in 1..Len(fs) :
                 /\ result.items[i][1] = property_name_encoder(options, fs[i][1])
                 /\ result.items[i][2] = encode(GetItem(value.d, fs[i][1]), options)
                 /\ GetItem(value.d, fs[i][1]) = None => result.items[i][2] = None

EncodeEmitsEveryFieldWitness ==
    /\ op = "encode"
    /\ options = _json_encoder_options
    /\ value = Obj("Counter", << <<"count", PyInt(7)>>, <<"label", None>> >>)
    /\ result = PyDict(<< <<"count", PyInt(7)>>, <<"label", None>> >>)

\* C8: the keys of a dict are the same, in the same order, before and after
\* encode and before and after decode, also for a dict that is a field of a
\* record and for a dict of records.
MapKeysUnchanged ==
    /\ (op = "encode" /\ value.k = "dict") =>
          Keys(result.items) = Keys(value.items)
    /\ (op \in {"encode", "roundtrip"} /\ typeCls = Cls("Catalog")) =>
          Keys(GetItem(Tree.items, property_name_encoder(options, "table")).items)
             = Keys(GetItem(value.d, "table").items)
    /\ (/\ op \in {"decode", "roundtrip"}
        /\ get_origin(typeCls) = "dict"
        /\ data.k = "dict"
        /\ ~IsRaise(result)) =>
          Keys(result.items) = Keys(data.items)
    /\ (/\ op \in {"decode", "roundtrip"}
        /\ typeCls = Cls("Catalog")
        /\ result.k = "obj"
        /\ GetItem(result.d, "table").k = "dict") =>
          \E j \in 1..Len(data.items) :
             /\ data.items[j][2].k = "dict"
             /\ Keys(GetItem(result.d, "table").items) = Keys(data.items[j][2].items)

MapKeysUnchangedWitness ==
    /\ op = "roundtrip"
    /\ options = _json_encoder_options
    /\ typeCls = DictOf(Cls("str"), Optional(Cls("Counter")))
    /\ Keys(value.items) = <<"last_modified", "lastModified">>
    /\ value.items[2][2] # None
    /\ Keys(data.items) = <<"last_modified", "lastModified">>
    /\ Keys(result.items) = <<"last_modified", "lastModified">>

\* C9: decoding the node None gives None for every target type, raises
\* nothing and calls no registered decoder.
NullDecodesToNull ==
    (op \in {"decode", "roundtrip"} /\ data = None) =>
       result = None /\ invoked = <<>>

NullDecodesToNullWitness ==
    /\ op = "decode"
    /\ typeCls = Cls("Color")
    /\ data = None
    /\ result = None

\* C10: a wire string that names no member of the target enumeration (after
\* to_snake_case and upper() with the options of the client) makes decode
\* raise KeyError; the result is no value.
UnknownEnumMemberRaises ==
    (/\ op = "decode"
     /\ typeCls \in {Cls("Color"), Optional(Cls("Color"))}
     /\ data.k = "str"
     /\ (IF options = _json_encoder_options
         THEN str_upper(to_snake_case(data.s))
         ELSE IF options = RegisteredOptions
         THEN str_upper(data.s)
         ELSE data.s) \notin _member_map_("Color")) =>
       result = Raise("KeyError")

UnknownEnumMemberRaisesWitness ==
    /\ op = "decode"
    /\ options = _json_encoder_options
    /\ typeCls = Cls("Color")
    /\ data = PyStr("bogusValue")
    /\ result = Raise("KeyError")

\* the error of the registered decoder of a class for a string it rejects
ScalarError(tp) ==
    IF tp = Cls("timedelta") THEN TimedeltaError ELSE Raise("ValueError")

\* the strings among the encodings of the values of the model that the
\* decoder of the class rejects: a negative duration, and a timestamp with
\* microseconds and an offset that is not zero
EncodedRejected(tp) ==
    CASE tp = Cls("timedelta") -> {"-1.23:59:59.9999990"}
      [] tp = Cls("datetime") -> {"2020-01-02T03:04:05.123456+01:00"}
      [] OTHER -> {}

\* the errors for the wire strings of the tree that sit where the target
\* type has timedelta, datetime or UUID and that are no duration, timestamp
\* or identifier
RECURSIVE Rejections(_, _, _)
Rejections(tp, d, opts) ==
    IF d = None \/ tp = Any THEN {}
    ELSE IF get_origin(tp) = "Union" THEN Rejections(tp.args[1], d, opts)
    ELSE IF get_origin(tp) = "list" /\ d.k = "list"
    THEN UNION {Rejections(tp.args[1], d.items[i], opts) : i \in 1..Len(d.items)}
    ELSE IF get_origin(tp) = "dict" /\ d.k = "dict"
    THEN UNION {Rejections(tp.args[2], d.items[i][2], opts) : i \in 1..Len(d.items)}
    ELSE IF is_dataclass(tp) /\ d.k = "dict"
    THEN UNION { Rejections(GetItem(type_hints(tp.name),
                                    property_name_decoder(opts, d.items[i][1])),
                            d.items[i][2], opts) :
                   i \in {j \in 1..Len(d.items) :
                            HasKey(type_hints(tp.name),
                                   property_name_decoder(opts, d.items[j][1]))} }
    ELSE IF tp.t = "cls" /\ d.k = "str" /\ d.s \in InvalidScalars(tp) \cup EncodedRejected(tp)
    THEN {ScalarError(tp)}
    ELSE {}

\* C11: when the tree holds, at any depth, a string that the decoder of
\* timedelta, datetime or UUID rejects, the decode call raises the error of
\* such a decoder; it returns no value and no partially built record.
ScalarRejectionFails ==
    (op \in {"decode", "roundtrip"} /\ Rejections(typeCls, data, options) # {}) =>
       /\ IsRaise(result)
       /\ result \in Rejections(typeCls, data, options)

ScalarRejectionFailsWitness ==
    /\ op = "decode"
    /\ typeCls = Cls("Roster")
    /\ data = PyDict(<< <<"leases",
                PyList(<< PyDict(<< <<"period", PyStr("0.01:02:03.1234560")>> >>),
                          PyDict(<< <<"period", PyStr("bogusValue")>> >>) >>)>> >>)
    /\ result = TimedeltaError

\* the target is no Any, no Optional, list or dict, no dataclass and no class
\* with a registered decoder
NoShapeNoCodec(tp, opts) ==
    /\ tp # Any
    /\ get_origin(tp) \notin {"Union", "list", "dict"}
    /\ ~is_dataclass(tp)
    /\ tp.t = "cls" => find_decoder(__mro__(tp.name), opts) = "None"

NullResultRaisesH01 ==
    (/\ op = "invoke"
     /\ is_success(response)
     /\ typeCls \notin {NoneType, Cls("Response")}
     /\ response.text.json # <<>>
     /\ decode(typeCls, response.text.json[1], client_options).ret = None) =>
       /\ result # None
       /\ IsRaise(result)
       /\ result.exc = "HsdsException"
       /\ result.status_code = "H01"

NullResultRaisesH01Witness ==
    /\ op = "invoke"
    /\ client = "HsdsAsyncClient"
    /\ typeCls = Cls("Counter")
    /\ response.status_code = 200
    /\ response.text.json = <<None>>
    /\ result = HsdsException("H01", "Response data could not be deserialized.")

\* the string is D.HH:MM:SS.ffffff0: a day count without leading zero, hours
\* below 24, minutes and seconds below 60, seven fractional digits the last
\* of which is 0
CanonicalDuration(s) ==
    LET dot  == find(s, ".")
        days == SubSeq(s, 1, dot - 1)
        rest == SubSeq(s, dot + 1, Len(s))
    IN  /\ dot > 1
        /\ IsDigits(days)
        /\ Len(days) > 1 => Char(days, 1) # "0"
        /\ Len(rest) = 16
        /\ IsDigits(SubSeq(rest, 1, 2)) /\ int_of(SubSeq(rest, 1, 2)) < 24
        /\ Char(rest, 3) = ":"
        /\ IsDigits(SubSeq(rest, 4, 5)) /\ int_of(SubSeq(rest, 4, 5)) < 60
        /\ Char(rest, 6) = ":"
        /\ IsDigits(SubSeq(rest, 7, 8)) /\ int_of(SubSeq(rest, 7, 8)) < 60
        /\ Char(rest, 9) = "."
        /\ IsDigits(SubSeq(rest, 10, 16))
        /\ Char(rest, 16) = "0"

\* C14: a duration string D.HH:MM:SS.ffffff0 that is decoded and encoded
\* again comes back character for character; "3000.00:08:07.1250000" decodes
\* to 3000 days, 8 minutes 7 seconds (487 s) and 125000 microseconds.
DurationStringRoundTrip ==
    /\ (/\ op = "reencode"
        /\ typeCls = Cls("timedelta")
        /\ data.k = "str"
        /\ CanonicalDuration(data.s)) => result = data
    /\ (/\ op = "decode"
        /\ typeCls = Cls("timedelta")
        /\ data = PyStr("3000.00:08:07.1250000")) =>
          result = [k |-> "timedelta", days |-> 3000, seconds |-> 487,
                    microseconds |-> 125000]

DurationStringRoundTripWitness ==
    /\ op = "reencode"
    /\ typeCls = Cls("timedelta")
    /\ data = PyStr("0.01:02:03.1234560")
    /\ value = [k |-> "timedelta", days |-> 0, seconds |-> 3723,
                microseconds |-> 123456]
    /\ result = PyStr("0.01:02:03.1234560")

\* C15: the encoding of a datetime whose UTC offset is zero is a string that
\* ends in "Z" and holds no "+00:00", whether the datetime has microseconds
\* or not, also when the datetime is a field of a record.
UtcTimestampEndsInZ ==
    /\ (op = "encode" /\ value.k = "datetime" /\ value.tzinfo = <<0>>) =>
          /\ result.k = "str"
          /\ endswith(result.s, "Z")
          /\ ~contains(result.s, "+00:00")
    /\ (/\ op = "encode"
        /\ value.k = "obj"
        /\ value.cls = "Job"
        /\ GetItem(value.d, "started").tzinfo = <<0>>) =>
          /\ endswith(GetItem(result.items, "started").s, "Z")
          /\ ~contains(GetItem(result.items, "started").s, "+00:00")

UtcTimestampEndsInZWitness ==
    /\ op = "encode"
    /\ value = datetime(2020, 1, 2, 3, 4, 5, 123456, <<0>>)
    /\ result = PyStr("2020-01-02T03:04:05.123456Z")

\* C16 as stated: with JsonEncoderOptions() the field last_modified is
\* written under the wire key lastModified and read back from it.
DefaultNamingIsCamelCase ==
    /\ (op = "rename" /\ options = JsonEncoderOptions /\ value = PyStr("last_modified")) =>
          data = PyStr("lastModified") /\ result = value
    /\ (op = "encode" /\ options = JsonEncoderOptions /\ typeCls = Cls("Catalog")) =>
          HasKey(result.items, "lastModified")

\* C16: with JsonEncoderOptions(), which is what a call without options
\* uses, a field name is its own wire name: last_modified is written under
\* the wire key last_modified and read back from it, and a wire map that
\* has only the key lastModified leaves the field at its default.
DefaultNamingIsIdentity ==
    /\ (op = "rename" /\ options = JsonEncoderOptions) =>
          data = value /\ result = value
    /\ (op = "encode" /\ options = JsonEncoderOptions /\ typeCls = Cls("Catalog")) =>
          /\ Keys(result.items) = <<"last_modified", "table">>
          /\ GetItem(result.items, "last_modified") = GetItem(value.d, "last_modified")
    /\ (/\ op \in {"decode", "roundtrip"}
        /\ options = JsonEncoderOptions
        /\ typeCls = Cls("Catalog")
        /\ result.k = "obj") =>
          GetItem(result.d, "last_modified") =
             IF HasKey(data.items, "last_modified")
             THEN GetItem(data.items, "last_modified")
             ELSE PyFloat(0)

DefaultNamingIsIdentityWitness ==
    /\ op = "decode"
    /\ options = JsonEncoderOptions
    /\ typeCls = Cls("Catalog")
    /\ data = PyDict(<< <<"lastModified", PyFloat(15)>> >>)
    /\ result = Obj("Catalog", << <<"last_modified", PyFloat(0)>>, <<"table", None>> >>)

\* C17 as stated: the bundle of the client is what it was when its
\* constructor returned.
BundleAsConstructed == client_options = _json_encoder_options_constructed

\* C17: the bundle of the client changes only while the module body runs
\* its two assignments to encoders[Enum] and decoders[Enum], which leave the
\* naming pair and the other registry entries as constructed; once the
\* module is loaded the bundle stays what it is, and the bundle of a call
\* stays what it is from the start of the call to its end.
BundleMutatedOnlyByModuleBody ==
    /\ [](module_pc = "loaded" => client_options = _json_encoder_options)
    /\ [][ /\ client_options' # client_options =>
                /\ module_pc \in {"line 241", "line 242"}
                /\ client_options'.property_name_encoder = client_options.property_name_encoder
                /\ client_options'.property_name_decoder = client_options.property_name_decoder
                /\ \A c \in {"datetime", "timedelta", "UUID"} :
                      /\ client_options'.encoders[c] = client_options.encoders[c]
                      /\ client_options'.decoders[c] = client_options.decoders[c]
           /\ (op # "idle" /\ op' # "idle") => options' = options ]_vars

BundleMutatedOnlyByModuleBodyWitness ==
    /\ module_pc = "loaded"
    /\ op = "invoke"
    /\ options = client_options
    /\ client_options = _json_encoder_options
    /\ client_options # _json_encoder_options_constructed

\* the target type that decode has for the node at a path of the tree
RECURSIVE TargetAt(_, _, _, _)
TargetAt(tp, d, path, opts) ==
    IF get_origin(tp) = "Union" THEN TargetAt(get_args(tp)[1], d, path, opts)
    ELSE IF path = <<>> THEN tp
    ELSE IF get_origin(tp) = "list"
    THEN TargetAt(get_args(tp)[1], d.items[Head(path)], Tail(path), opts)
    ELSE IF get_origin(tp) = "dict"
    THEN TargetAt(get_args(tp)[2], d.items[Head(path)][2], Tail(path), opts)
    ELSE TargetAt(GetItem(type_hints(tp.name),
                          property_name_decoder(opts, d.items[Head(path)][1])),
                  d.items[Head(path)][2], Tail(path), opts)

\* the target is Any or a class that is no dataclass and has no registered
\* decoder
PassedThrough(tp, opts) ==
    \/ tp = Any
    \/ /\ tp.t = "cls"
       /\ ~is_dataclass(tp)
       /\ find_decoder(__mro__(tp.name), opts) = "None"

\* a call leaves its argument and the bundle as they are
CallFrame ==
    \A t \in Threads :
       (thread_pc[t] = "called" /\ thread_pc'[t] = "returned") =>
          /\ thread_call'[t] = thread_call[t]
          /\ client_options' = client_options

\* C18 as stated: a call leaves its argument and the bundle as they are and
\* the object it returns is and holds no container of the argument.
CallsReturnFreshContainers ==
    /\ [][CallFrame]_vars
    /\ [](\A t \in Threads : thread_pc[t] = "returned" => thread_ret[t].shares = {})

\* C18: a call leaves its argument and the bundle as they are; the object
\* encode returns is and holds no container of the argument; the object
\* decode returns is or holds a container of the tree only where the target
\* type of that node is Any or a class without dataclass shape and without
\* registered decoder.
CallsLeaveArgumentAndBundle ==
    /\ [][CallFrame]_vars
    /\ [](\A t \in Threads :
            thread_pc[t] = "returned" =>
               /\ thread_call[t].kind = "encode" => thread_ret[t].shares = {}
               /\ \A path \in thread_ret[t].shares :
                     PassedThrough(TargetAt(thread_call[t].typeCls, thread_call[t].arg,
                                            path, client_options),
                                   client_options))

CallsLeaveArgumentAndBundleWitness ==
    /\ thread_pc[1] = "returned"
    /\ thread_call[1].kind = "decode"
    /\ thread_call[1].typeCls = ListOf(Cls("object"))
    /\ thread_call[1].arg.items[2].k = "dict"
    /\ thread_ret[1].ret = thread_call[1].arg
    /\ thread_ret[1].shares = {<<2>>}
    /\ client_options = _json_encoder_options

RECURSIVE JoinUpperFirst(_)
JoinUpperFirst(components) ==
    IF components = <<>> THEN ""
    ELSE LET x == Head(components)
         IN  (IF x = "" THEN "" ELSE char_upper(Char(x, 1)) \o Tail(x))
                \o JoinUpperFirst(Tail(components))

Reference(name) ==
    Head(str_split(name)) \o JoinUpperFirst(Tail(str_split(name)))

\* in every segment after the first, each letter after the first character
\* is lower-case when it follows a letter and upper-case when it follows a
\* digit
TitleCased(name) ==
    \A n \in 2..Len(str_split(name)) :
       LET x == str_split(name)[n]
       IN  \A i \in 2..Len(x) :
              /\ (IsLower(Char(x, i - 1)) \/ IsUpper(Char(x, i - 1))) => ~IsUpper(Char(x, i))
              /\ IsDigit(Char(x, i - 1)) => ~IsLower(Char(x, i))

\* C20 as stated: to_camel_case(name) is the reference transform of the
\* name, for every name over letters, digits and "_".
CamelCaseIsReference ==
    op = "to_camel_case" => result = PyStr(Reference(value.s))

\* C20: to_camel_case(name) is the reference transform of the name exactly
\* when, in every segment after the first, each letter after the first
\* character is lower-case after a letter and upper-case after a digit, as
\* in every field name of the client; last_modified becomes lastModified.
CamelCaseIsReferenceIfTitleCased ==
    /\ op = "to_camel_case" =>
          (result = PyStr(Reference(value.s)) <=> TitleCased(value.s))
    /\ (op = "to_camel_case" /\ value.s \in FieldVocabulary) => TitleCased(value.s)
    /\ (op = "to_camel_case" /\ value.s = "last_modified") => result = PyStr("lastModified")

CamelCaseIsReferenceIfTitleCasedWitness ==
    /\ op = "to_camel_case"
    /\ value = PyStr("a_aB")
    /\ result = PyStr("aAb")
    /\ Reference(value.s) = "aAB"

\* C21: a datetime with a UTC offset (zero or not, with or without
\* microseconds) that is encoded and decoded comes back equal, offset
\* included.
TimestampRoundTrip ==
    (op = "roundtrip" /\ typeCls = Cls("datetime") /\ value.tzinfo # <<>>) =>
       result = value

\* C22: a timedelta that is encoded and decoded comes back equal.
DurationRoundTrip ==
    (op = "roundtrip" /\ typeCls = Cls("timedelta")) => result = value

\* the string is HH:MM:SS.ffffff0 for the seconds and microseconds of the
\* timedelta
ClockOf(s, v) ==
    /\ Len(s) = 16
    /\ Char(s, 3) = ":" /\ Char(s, 6) = ":" /\ Char(s, 9) = "."
    /\ IsDigits(SubSeq(s, 1, 2)) /\ IsDigits(SubSeq(s, 4, 5))
    /\ IsDigits(SubSeq(s, 7, 8)) /\ IsDigits(SubSeq(s, 10, 16))
    /\ int_of(SubSeq(s, 4, 5)) < 60 /\ int_of(SubSeq(s, 7, 8)) < 60
    /\ int_of(SubSeq(s, 1, 2)) * 3600 + int_of(SubSeq(s, 4, 5)) * 60
          + int_of(SubSeq(s, 7, 8)) = v.seconds
    /\ int_of(SubSeq(s, 10, 15)) = v.microseconds
    /\ Char(s, 16) = "0"

\* C23 as stated: the encoding of a timedelta has the day count and its "."
\* only when the day count is not zero; a duration of less than one day is
\* written HH:MM:SS.ffffff0.
DayCountOnlyIfNonzero ==
    (op = "encode" /\ value.k = "timedelta") =>
       /\ result.k = "str"
       /\ IF value.days = 0
          THEN ClockOf(result.s, value)
          ELSE LET n == Len(str_of(value.days))
               IN  /\ SubSeq(result.s, 1, n + 1) = str_of(value.days) \o "."
                   /\ ClockOf(SubSeq(result.s, n + 2, Len(result.s)), value)

\* C23: the encoding of a timedelta always starts with the day count and
\* its ".", also when the day count is zero: a duration of less than one day
\* is written 0.HH:MM:SS.ffffff0.
DayCountAlwaysWritten ==
    (op = "encode" /\ value.k = "timedelta") =>
       /\ result.k = "str"
       /\ LET n == Len(str_of(value.days))
          IN  /\ SubSeq(result.s, 1, n + 1) = str_of(value.days) \o "."
              /\ ClockOf(SubSeq(result.s, n + 2, Len(result.s)), value)
       /\ value.days = 0 => SubSeq(result.s, 1, 2) = "0."

DayCountAlwaysWrittenWitness ==
    /\ op = "encode"
    /\ value = [k |-> "timedelta", days |-> 0, seconds |-> 3723,
                microseconds |-> 123456]
    /\ result = PyStr("0.01:02:03.1234560")

\* the wire string is a duration with a fractional group of seven digits
SevenDigitFraction ==
    /\ op = "decode"
    /\ typeCls = Cls("timedelta")
    /\ data.k = "str"
    /\ timedelta_pattern(data.s) # <<>>
    /\ Len(timedelta_pattern(data.s)[5]) = 7

\* the seconds that the day, hour, minute and second groups of the wire
\* string stand for
WholeSeconds ==
    LET match == timedelta_pattern(data.s)
    IN  (IF match[1] # "" THEN int_of(match[1]) ELSE 0) * 86400
            + int_of(match[2]) * 3600 + int_of(match[3]) * 60 + int_of(match[4])

\* C24 as stated: the microseconds of the decoded duration are the
\* fractional group divided by 10 and cut off, floor(f / 10); the seventh
\* digit never rounds up and never carries into the seconds.
FractionTruncated ==
    SevenDigitFraction =>
       /\ result.microseconds = int_of(timedelta_pattern(data.s)[5]) \div 10
       /\ result.days * 86400 + result.seconds = WholeSeconds

\* C24: the decoded duration is the whole seconds of the string plus the
\* fractional group f divided by 10 and rounded to the nearest microsecond,
\* a tie going to the even count: a seventh digit above 5, or a 5 after an
\* odd sixth digit, rounds up, and from 9999995 on the rounding carries one
\* second into the seconds component; a seventh digit below 5 is discarded.
FractionRoundedHalfEven ==
    SevenDigitFraction =>
       LET f       == int_of(timedelta_pattern(data.s)[5])
           carry   == result.days * 86400 + result.seconds - WholeSeconds
           rounded == carry * 1000000 + result.microseconds
           error   == IF 10 * rounded >= f THEN 10 * rounded - f ELSE f - 10 * rounded
       IN  /\ result.k = "timedelta"
           /\ result.microseconds \in 0..999999
           /\ carry \in {0, 1}
           /\ error <= 5
           /\ error = 5 => rounded % 2 = 0
           /\ f % 10 < 5 => rounded = f \div 10
           /\ f >= 9999995 => (carry = 1 /\ result.microseconds = 0)

FractionRoundedHalfEvenWitness ==
    /\ op = "decode"
    /\ typeCls = Cls("timedelta")
    /\ data = PyStr("0.00:00:59.9999995")
    /\ result = [k |-> "timedelta", days |-> 0, seconds |-> 60, microseconds |-> 0]

\* C25: with the options of the client a member of an enumeration, whose
\* name is upper-case letters, digits and "_", that is encoded and decoded
\* against its enumeration comes back.
EnumRoundTrip ==
    (op = "roundtrip" /\ options = _json_encoder_options /\ value.k = "enum") =>
       result = value

\* C26: the codec applied to an enumeration member, or to a wire string
\* decoded against an enumeration, is the one registered for the class of
\* the member when the bundle has such an entry (Color in RegisteredOptions,
\* which also has an entry for Enum) and the one registered for Enum
\* otherwise, for every enumeration; an entry for object is never applied:
\* an int, bool or str is returned as it is.
MostDerivedCodecApplies ==
    /\ (op = "encode" /\ value.k = "enum") =>
          result = IF options = RegisteredOptions /\ value.cls = "Color"
                   THEN PyStr(str_lower(value.name))
                   ELSE IF options = _json_encoder_options
                   THEN PyStr(to_camel_case(value.name))
                   ELSE PyStr(value.name)
    /\ (/\ op \in {"decode", "roundtrip"}
        /\ typeCls.t = "cls"
        /\ typeCls.name \in Enums
        /\ data # None) =>
          invoked = IF options = RegisteredOptions /\ typeCls.name = "Color"
                    THEN <<"typeCls[value.upper()]">>
                    ELSE IF options = _json_encoder_options
                    THEN <<"typeCls[to_snake_case(value).upper()]">>
                    ELSE <<"typeCls[value]">>
    /\ (/\ op \in {"decode", "roundtrip"}
        /\ options = RegisteredOptions
        /\ typeCls = Cls("Color")
        /\ data.k = "str") =>
          result = IF str_upper(data.s) \in _member_map_("Color")
                   THEN EnumMember("Color", str_upper(data.s))
                   ELSE Raise("KeyError")
    /\ (op = "encode" /\ options = RegisteredOptions /\ value.k \in {"int", "bool", "str"}) =>
          result = value
    /\ (/\ op = "decode"
        /\ options = RegisteredOptions
        /\ typeCls \in {Cls("int"), Cls("bool"), Cls("object")}) =>
          result = data /\ invoked = <<>>

MostDerivedCodecAppliesWitness ==
    /\ op = "roundtrip"
    /\ options = RegisteredOptions
    /\ "Enum" \in DOMAIN options.encoders
    /\ value = EnumMember("Color", "DARK_BLUE")
    /\ data = PyStr("dark_blue")
    /\ invoked = <<"typeCls[value.upper()]">>
    /\ result = value

\* C27: encode returns None for None, a list of as many elements for a list
\* or tuple, a dict of the same keys for a dict, a dict of one entry per
\* field for a dataclass instance (also when the bundle has an encoder for
\* the class of the instance, as RegisteredOptions has for Counter), the
\* string of the registered encoder for an enumeration member, datetime,
\* timedelta or UUID, and the value itself for an int, float, bool or str;
\* it raises nothing.
EncodePriority ==
    op = "encode" =>
       /\ ~IsRaise(result)
       /\ value = None => result = None
       /\ value.k \in {"list", "tuple"} =>
             result.k = "list" /\ Len(result.items) = Len(value.items)
       /\ value.k = "dict" =>
             result.k = "dict" /\ Keys(result.items) = Keys(value.items)
       /\ value.k = "obj" =>
             /\ result.k = "dict"
             /\ Keys(result.items) =
                   [i \in 1..Len(value.d) |-> property_name_encoder(options, value.d[i][1])]
       /\ value.k \in {"enum", "datetime", "timedelta", "UUID"} => result.k = "str"
       /\ value.k \in {"int", "float", "bool", "str"} => result = value

EncodePriorityWitness ==
    /\ op = "encode"
    /\ options = RegisteredOptions
    /\ options.encoders["Counter"] = "lambda value: None"
    /\ value = Obj("Counter", << <<"count", PyInt(7)>>, <<"label", PyStr("g1")>> >>)
    /\ result = PyDict(<< <<"count", PyInt(7)>>, <<"label", PyStr("g1")>> >>)

\* C28: decoding a node that is not None and not a list against a list
\* type, or not a dict against a dict type or a dataclass, raises; it
\* returns no value.
ShapeMismatchFails ==
    (/\ op = "decode"
     /\ data # None
     /\ \/ get_origin(typeCls) = "list" /\ data.k # "list"
        \/ get_origin(typeCls) = "dict" /\ data.k # "dict"
        \/ is_dataclass(typeCls) /\ data.k # "dict") =>
       IsRaise(result)

\* C29: when a call of _invoke is over, whether it returned or raised, the
\* response is closed if the type asked for is not Response, and it is
\* open only if the type asked for is Response.
ResponseClosedUnlessRaw ==
    op = "invoke" => (response.is_closed <=> typeCls # Cls("Response"))


\* the two registries of the j-th bundle: of _json_encoder_options for
\* j = 0, of the j-th bundle that callers have constructed otherwise
RegistriesOf(j) ==
    IF j = 0
    THEN <<heap[_json_encoder_options_registries.encoders],
           heap[_json_encoder_options_registries.decoders]>>
    ELSE <<heap[bundles[j].encoders], heap[bundles[j].decoders]>>

\* the addresses of the registries of the j-th bundle
AddressesOf(j) ==
    IF j = 0
    THEN {_json_encoder_options_registries.encoders,
          _json_encoder_options_registries.decoders}
    ELSE {bundles[j].encoders, bundles[j].decoders}

\* a call without options finds the built-in Enum codec: the member is
\* written by its name verbatim and read back by that name
WithoutOptionsVerbatim ==
    (options_arg = NoOptions /\ op \in {"encode", "roundtrip"}) =>
        /\ options = JsonEncoderOptions
        /\ op = "encode" => result = PyStr(value.name)
        /\ op = "roundtrip" =>
              /\ data = PyStr(value.name)
              /\ result = value
              /\ invoked = <<"typeCls[value]">>

\* [C30] Each bundle owns its registries: no dict is a registry of two
\* bundles, a step that adds or replaces an entry in a registry of one
\* bundle (the module body on _json_encoder_options, a caller on its bundle)
\* leaves the registries of every other bundle unchanged, a bundle
\* constructed after such steps has the built-in registries, and encode and
\* decode without options write and read an Enum member by its name verbatim.
BundlesOwnRegistries ==
    /\ [](\A i, j \in 0..Len(bundles) :
             i # j => AddressesOf(i) \cap AddressesOf(j) = {})
    /\ [](\A i \in 0..Len(bundles) : Cardinality(AddressesOf(i)) = 2)
    /\ []WithoutOptionsVerbatim
    /\ [][\A i, j \in 0..Len(bundles) :
             (i # j /\ RegistriesOf(i)' # RegistriesOf(i))
                 => RegistriesOf(j)' = RegistriesOf(j)]_vars
    /\ [][Len(bundles') > Len(bundles) =>
             bundle_at(bundles'[Len(bundles')], heap') = JsonEncoderOptions]_vars

\* the module body has replaced the Enum entries of _json_encoder_options, a
\* caller has replaced the Enum encoder and added a Color encoder in its
\* first bundle, the second bundle is untouched, and a call without options
\* has written and read back Color.DARK_BLUE
BundlesOwnRegistriesWitness ==
    /\ module_pc = "loaded"
    /\ RegistriesOf(0)[1].Enum = "to_camel_case(value.name)"
    /\ Len(bundles) = 2
    /\ "Color" \in DOMAIN RegistriesOf(1)[1]
    /\ RegistriesOf(1)[1].Enum = "to_camel_case(value.name)"
    /\ bundle_at(bundles[2], heap) = JsonEncoderOptions
    /\ options_arg = NoOptions
    /\ op = "roundtrip"
    /\ value.k = "enum" /\ value.name = "DARK_BLUE"
    /\ data = PyStr("DARK_BLUE")
    /\ result = value

=============================================================================
